---- MODULE Spec2Model ----
(***************************************************************************)
(* CPU scheduling simulator: Proceso records, the FCFS and Round-Robin     *)
(* planners (scheduler.py), the metrics calculator (metrics.py) and the    *)
(* two simulation handlers of main.py that drive them.                     *)
(***************************************************************************)
EXTENDS Integers, Sequences, FiniteSets, TLC

\* ---------------------------------------------------------------- bounds
MaxProcs == 2
MaxDuracion == 3
MaxLlegada == 2
MaxQuantum == 3
MaxCorridas == 2
MaxSegmentos == 2
MaxTiempo == 2
MaxRepositorio == 2

\* pids given to the processes of the collection, by position
Pids == <<"P1", "P2", "P3", "P4", "P5", "P6">>

\* ------------------------------------------------------------ optionals
\* tiempo_inicio / tiempo_fin are None or an integer: <<>> or <<v>>
None == <<>>
Some(v) == <<v>>

\* ------------------------------------------------------------- proceso.py
\* Proceso.__init__ (field initialisation of an accepted process)
Proceso(pid, duracion, prioridad, tiempo_llegada) ==
    [pid |-> pid, duracion |-> duracion, prioridad |-> prioridad,
     tiempo_llegada |-> tiempo_llegada, tiempo_restante |-> duracion,
     tiempo_inicio |-> None, tiempo_fin |-> None]

\* Proceso.reiniciar
reiniciar_sin_inicio(p) ==
    [p EXCEPT !.tiempo_restante = p.duracion,
              !.tiempo_fin = None]

reiniciar_sin_restante(p) ==
    [p EXCEPT !.tiempo_inicio = None,
              !.tiempo_fin = None]

reiniciar(p) ==
    [p EXCEPT !.tiempo_restante = p.duracion,
              !.tiempo_inicio = None,
              !.tiempo_fin = None]

\* copy.deepcopy of a Proceso: a new object with the same field values
deepcopy(p) ==
    [pid |-> p.pid, duracion |-> p.duracion, prioridad |-> p.prioridad,
     tiempo_llegada |-> p.tiempo_llegada, tiempo_restante |-> p.tiempo_restante,
     tiempo_inicio |-> p.tiempo_inicio, tiempo_fin |-> p.tiempo_fin]

\* ----------------------------------------------------------- scheduler.py
min(a, b) == IF a <= b THEN a ELSE b

\* list.sort(key=lambda p: p.tiempo_llegada): stable, ascending.
\* InsertarOrdenado puts p after every element whose key is <= p's key.
RECURSIVE InsertarOrdenado_inestable(_, _)
InsertarOrdenado_inestable(p, s) ==
    IF s = <<>> THEN <<p>>
    ELSE IF Head(s).tiempo_llegada < p.tiempo_llegada
         THEN <<Head(s)>> \o InsertarOrdenado_inestable(p, Tail(s))
         ELSE <<p>> \o s

RECURSIVE InsertarOrdenado_por_prioridad(_, _)
InsertarOrdenado_por_prioridad(p, s) ==
    IF s = <<>> THEN <<p>>
    ELSE IF \/ Head(s).tiempo_llegada < p.tiempo_llegada
            \/ /\ Head(s).tiempo_llegada = p.tiempo_llegada
               /\ Head(s).prioridad <= p.prioridad
         THEN <<Head(s)>> \o InsertarOrdenado_por_prioridad(p, Tail(s))
         ELSE <<p>> \o s

RECURSIVE InsertarOrdenado(_, _)
InsertarOrdenado(p, s) ==
    IF s = <<>> THEN <<p>>
    ELSE IF Head(s).tiempo_llegada <= p.tiempo_llegada
         THEN <<Head(s)>> \o InsertarOrdenado(p, Tail(s))
         ELSE <<p>> \o s

OrdenarPorLlegada_sin_ordenar(s) == s

RECURSIVE OrdenarPorLlegada(_)
OrdenarPorLlegada(s) ==
    IF s = <<>> THEN <<>>
    ELSE InsertarOrdenado(s[Len(s)], OrdenarPorLlegada(SubSeq(s, 1, Len(s) - 1)))

\* The local state of one planificar call.
\*   procesos_copia : the working copies
\*   cola           : RR ready queue, as positions in procesos_copia
\*   i              : FCFS position of the for loop in procesos_copia
SimInicialFCFS(procs) ==
    [procesos_copia |-> OrdenarPorLlegada([k \in 1..Len(procs) |-> deepcopy(procs[k])]),
     cola |-> <<>>, gantt |-> <<>>, tiempo_actual |-> 0, i |-> 1]

SimInicialRR_por_llegada(procs) ==
    [procesos_copia |-> [k \in 1..Len(procs) |-> deepcopy(procs[k])],
     cola |-> CHOOSE c \in [1..Len(procs) -> 1..Len(procs)] :
                \A j \in 1..Len(procs), h \in 1..Len(procs) :
                    j < h =>
                        \/ procs[c[j]].tiempo_llegada < procs[c[h]].tiempo_llegada
                        \/ /\ procs[c[j]].tiempo_llegada = procs[c[h]].tiempo_llegada
                           /\ c[j] < c[h],
     gantt |-> <<>>, tiempo_actual |-> 0, i |-> 0]

SimInicialRR(procs) ==
    [procesos_copia |-> [k \in 1..Len(procs) |-> deepcopy(procs[k])],
     cola |-> [k \in 1..Len(procs) |-> k],
     gantt |-> <<>>, tiempo_actual |-> 0, i |-> 0]

\* "if tiempo_actual < proceso.tiempo_llegada: tiempo_actual = proceso.tiempo_llegada"
AvanzarReloj_retrocede(tiempo_actual, proceso) == proceso.tiempo_llegada

AvanzarReloj_sin_espera(tiempo_actual, proceso) == tiempo_actual

AvanzarReloj(tiempo_actual, proceso) ==
    IF tiempo_actual < proceso.tiempo_llegada
    THEN proceso.tiempo_llegada ELSE tiempo_actual

\* "if proceso.tiempo_inicio is None: proceso.tiempo_inicio = tiempo_actual"
MarcarInicio_siempre(proceso, tiempo_actual) == Some(tiempo_actual)

MarcarInicio(proceso, tiempo_actual) ==
    IF proceso.tiempo_inicio = None THEN Some(tiempo_actual)
    ELSE proceso.tiempo_inicio

\* FCFS: "tiempo_fin = tiempo_actual + proceso.duracion"
FinFCFS_otro_campo(tiempo_actual, proceso) == tiempo_actual + proceso.prioridad

FinFCFS_sin_reloj(tiempo_actual, proceso) == proceso.duracion

FinFCFS(tiempo_actual, proceso) == tiempo_actual + proceso.duracion

\* RR: "tiempo_ejecucion = min(self.quantum, proceso.tiempo_restante)"
TiempoEjecucion_sin_min(q, proceso) == q

TiempoEjecucion_por_duracion(q, proceso) == min(q, proceso.duracion)

TiempoEjecucion(q, proceso) == min(q, proceso.tiempo_restante)

\* one iteration of the for loop of FCFSScheduler.planificar
IterFCFS(s) ==
    LET proceso == s.procesos_copia[s.i]
        ahora == AvanzarReloj(s.tiempo_actual, proceso)
        tiempo_fin == FinFCFS(ahora, proceso)
    IN [s EXCEPT
          !.gantt = Append(s.gantt, <<proceso.pid, ahora, tiempo_fin>>),
          !.procesos_copia[s.i] =
              [proceso EXCEPT !.tiempo_inicio = MarcarInicio(proceso, ahora),
                              !.tiempo_fin = Some(tiempo_fin),
                              !.tiempo_restante = 0],
          !.tiempo_actual = tiempo_fin,
          !.i = s.i + 1]

\* one iteration of the while loop of RoundRobinScheduler.planificar
IterRR(s, q) ==
    LET k == Head(s.cola)
        proceso == s.procesos_copia[k]
        ahora == AvanzarReloj(s.tiempo_actual, proceso)
        tiempo_ejecucion == TiempoEjecucion(q, proceso)
        tiempo_fin == ahora + tiempo_ejecucion
        restante == proceso.tiempo_restante - tiempo_ejecucion
    IN [s EXCEPT
          !.gantt = Append(s.gantt, <<proceso.pid, ahora, tiempo_fin>>),
          !.procesos_copia[k] =
              [proceso EXCEPT !.tiempo_inicio = MarcarInicio(proceso, ahora),
                              !.tiempo_restante = restante,
                              !.tiempo_fin = IF restante > 0 THEN proceso.tiempo_fin
                                             ELSE Some(tiempo_fin)],
          !.cola = IF restante > 0 THEN Append(Tail(s.cola), k) ELSE Tail(s.cola),
          !.tiempo_actual = tiempo_fin]

\* the final loop of planificar: copy the computed times onto the caller's
\* processes, position by position
Publicar_reemplaza(procs, copia) ==
    [k \in 1..Len(procs) |-> [copia[k] EXCEPT !.tiempo_restante = 0]]

Publicar(procs, copia) ==
    [k \in 1..Len(procs) |->
        [procs[k] EXCEPT !.tiempo_inicio = copia[k].tiempo_inicio,
                         !.tiempo_fin = copia[k].tiempo_fin,
                         !.tiempo_restante = 0]]

\* the for loop of FCFSScheduler.planificar run to its end
RECURSIVE CorrerFCFS(_)
CorrerFCFS(s) ==
    IF s.i > Len(s.procesos_copia) THEN s ELSE CorrerFCFS(IterFCFS(s))

\* the while loop of RoundRobinScheduler.planificar run to its end
RECURSIVE CorrerRR(_, _)
CorrerRR(s, q) ==
    IF s.cola = <<>> THEN s ELSE CorrerRR(IterRR(s, q), q)

\* FCFSScheduler.planificar as a whole: the returned gantt and the caller's
\* list after the call
planificar_fcfs(procs) ==
    IF procs = <<>> THEN [gantt |-> <<>>, procesos |-> procs, error |-> ""]
    ELSE LET s == CorrerFCFS(SimInicialFCFS(procs))
         IN [gantt |-> s.gantt, procesos |-> Publicar(procs, s.procesos_copia),
             error |-> ""]

\* RoundRobinScheduler(q).planificar as a whole
planificar_rr_sin_vacio(procs, q) ==
    IF procs = <<>>
    THEN [gantt |-> <<>>, procesos |-> procs, error |-> "IndexError"]
    ELSE LET s == CorrerRR(SimInicialRR(procs), q)
         IN [gantt |-> s.gantt, procesos |-> Publicar(procs, s.procesos_copia),
             error |-> ""]

planificar_rr(procs, q) ==
    IF procs = <<>> THEN [gantt |-> <<>>, procesos |-> procs, error |-> ""]
    ELSE LET s == CorrerRR(SimInicialRR(procs), q)
         IN [gantt |-> s.gantt, procesos |-> Publicar(procs, s.procesos_copia),
             error |-> ""]

\* RoundRobinScheduler.__init__: the outcome of the construction, the
\* exception raised or the new scheduler object
RoundRobinScheduler_menor_estricto(q) ==
    IF q < 0
    THEN [op |-> "RoundRobinScheduler", args |-> <<q>>,
          error |-> "ValueError: El quantum debe ser un entero positivo",
          valor |-> None]
    ELSE [op |-> "RoundRobinScheduler", args |-> <<q>>, error |-> "",
          valor |-> Some([quantum |-> q])]

RoundRobinScheduler(q) ==
    IF q <= 0
    THEN [op |-> "RoundRobinScheduler", args |-> <<q>>,
          error |-> "ValueError: El quantum debe ser un entero positivo",
          valor |-> None]
    ELSE [op |-> "RoundRobinScheduler", args |-> <<q>>, error |-> "",
          valor |-> Some([quantum |-> q])]

\* ------------------------------------------------------------- metrics.py
\* primer_inicio / ultimo_fin dictionaries built by the loop over gantt
RECURSIVE PrimerInicio_sobrescribe(_)
PrimerInicio_sobrescribe(g) ==
    IF g = <<>> THEN <<>>
    ELSE LET d == PrimerInicio_sobrescribe(SubSeq(g, 1, Len(g) - 1))
             e == g[Len(g)]
         IN (e[1] :> e[2]) @@ d

RECURSIVE PrimerInicio(_)
PrimerInicio(g) ==
    IF g = <<>> THEN <<>>
    ELSE LET d == PrimerInicio(SubSeq(g, 1, Len(g) - 1))
             e == g[Len(g)]
         IN IF e[1] \in DOMAIN d THEN d ELSE (e[1] :> e[2]) @@ d

RECURSIVE UltimoFin(_)
UltimoFin(g) ==
    IF g = <<>> THEN <<>>
    ELSE LET d == UltimoFin(SubSeq(g, 1, Len(g) - 1))
             e == g[Len(g)]
         IN (e[1] :> e[3]) @@ d

RECURSIVE Suma(_)
Suma(s) == IF s = <<>> THEN 0 ELSE Head(s) + Suma(Tail(s))

\* sum(lista) / n if n > 0 else 0, kept as the exact fraction num/den
Promedio_sin_dividir(lista) == [num |-> Suma(lista), den |-> 1]

Promedio(lista) ==
    IF Len(lista) > 0 THEN [num |-> Suma(lista), den |-> Len(lista)]
    ELSE [num |-> 0, den |-> 1]

SinMetricas_sin_guarda ==
    [metricas_individuales |-> <<>>,
     tiempo_respuesta_promedio |-> [num |-> 0, den |-> 0],
     tiempo_espera_promedio |-> [num |-> 0, den |-> 0],
     tiempo_retorno_promedio |-> [num |-> 0, den |-> 0]]

SinMetricas ==
    [metricas_individuales |-> <<>>,
     tiempo_respuesta_promedio |-> [num |-> 0, den |-> 1],
     tiempo_espera_promedio |-> [num |-> 0, den |-> 1],
     tiempo_retorno_promedio |-> [num |-> 0, den |-> 1]]

\* the per-process record computed in the body of the loop over procesos
MetricaDe_resta_respuesta(proceso, primer_inicio, ultimo_fin) ==
    LET tiempo_respuesta == primer_inicio[proceso.pid] - proceso.tiempo_llegada
        tiempo_retorno == ultimo_fin[proceso.pid] - proceso.tiempo_llegada
        tiempo_espera == tiempo_retorno - tiempo_respuesta - proceso.duracion
    IN [tiempo_respuesta |-> tiempo_respuesta,
        tiempo_espera |-> tiempo_espera,
        tiempo_retorno |-> tiempo_retorno,
        duracion |-> proceso.duracion,
        tiempo_llegada |-> proceso.tiempo_llegada]

MetricaDe(proceso, primer_inicio, ultimo_fin) ==
    LET tiempo_respuesta == primer_inicio[proceso.pid] - proceso.tiempo_llegada
        tiempo_retorno == ultimo_fin[proceso.pid] - proceso.tiempo_llegada
        tiempo_espera == tiempo_retorno - proceso.duracion
    IN [tiempo_respuesta |-> tiempo_respuesta,
        tiempo_espera |-> tiempo_espera,
        tiempo_retorno |-> tiempo_retorno,
        duracion |-> proceso.duracion,
        tiempo_llegada |-> proceso.tiempo_llegada]

\* MetricasCalculator.calcular_metricas
calcular_metricas(procs, g) ==
    IF procs = <<>> \/ g = <<>> THEN SinMetricas
    ELSE
      LET primer_inicio == PrimerInicio(g)
          ultimo_fin == UltimoFin(g)
          presentes == SelectSeq(procs,
                          LAMBDA p : p.pid \in DOMAIN primer_inicio
                                     /\ p.pid \in DOMAIN ultimo_fin)
          individuales ==
              [pid \in {presentes[k].pid : k \in 1..Len(presentes)} |->
                  LET k == CHOOSE j \in 1..Len(presentes) :
                              /\ presentes[j].pid = pid
                              /\ \A m \in (j+1)..Len(presentes) : presentes[m].pid # pid
                  IN MetricaDe(presentes[k], primer_inicio, ultimo_fin)]
          tiempos_respuesta ==
              [k \in 1..Len(presentes) |->
                  MetricaDe(presentes[k], primer_inicio, ultimo_fin).tiempo_respuesta]
          tiempos_espera ==
              [k \in 1..Len(presentes) |->
                  MetricaDe(presentes[k], primer_inicio, ultimo_fin).tiempo_espera]
          tiempos_retorno ==
              [k \in 1..Len(presentes) |->
                  MetricaDe(presentes[k], primer_inicio, ultimo_fin).tiempo_retorno]
      IN [metricas_individuales |-> individuales,
          tiempo_respuesta_promedio |-> Promedio(tiempos_respuesta),
          tiempo_espera_promedio |-> Promedio(tiempos_espera),
          tiempo_retorno_promedio |-> Promedio(tiempos_retorno)]

\* ------------------------------------------------------------------ state
VARIABLES
    procesos,        \* the caller's process list (repositorio.listar_procesos())
    pc,              \* position: "menu", "fcfs", "rr", "retorno", "informe"
    politica,        \* policy of the current / last run: "", "FCFS", "RR"
    quantum,         \* self.quantum of the RoundRobinScheduler in use (0: none)
    procesos_copia,
    cola,
    gantt,
    tiempo_actual,
    i,
    metricas,
    corridas,        \* number of simulations started so far
    resultado,       \* outcome of the last direct call: what was called, with
                     \* what, the exception raised ("" if none), the value returned
    archivo          \* the file at the path given to guardar_* / cargar_*

vars == <<procesos, pc, politica, quantum, procesos_copia, cola, gantt,
          tiempo_actual, i, metricas, corridas, resultado, archivo>>

\* no file at the path
SinArchivo == [existe |-> FALSE, formato |-> "", contenido |-> <<>>,
               descritos |-> <<>>]

\* no call made yet
SinResultado == [op |-> "", args |-> <<>>, error |-> "", valor |-> <<>>]

Sim ==
    [procesos_copia |-> procesos_copia, cola |-> cola, gantt |-> gantt,
     tiempo_actual |-> tiempo_actual, i |-> i]

PonerSim(s) ==
    /\ procesos_copia' = s.procesos_copia
    /\ cola' = s.cola
    /\ gantt' = s.gantt
    /\ tiempo_actual' = s.tiempo_actual
    /\ i' = s.i

SimVacia ==
    [procesos_copia |-> <<>>, cola |-> <<>>, gantt |-> <<>>,
     tiempo_actual |-> 0, i |-> 0]

\* no planificar call in progress
PonerSimInicial ==
    /\ procesos_copia = <<>>
    /\ cola = <<>>
    /\ gantt = <<>>
    /\ tiempo_actual = 0
    /\ i = 0

\* The collection: up to MaxProcs valid processes, as constructed by
\* Proceso(pid, duracion, prioridad, tiempo_llegada), in insertion order.
Init ==
    /\ \E n \in 0..MaxProcs :
         \E d \in [1..n -> 1..MaxDuracion], a \in [1..n -> 0..MaxLlegada] :
            procesos = [k \in 1..n |-> Proceso(Pids[k], d[k], 1, a[k])]
    /\ pc = "menu"
    /\ politica = ""
    /\ quantum = 0
    /\ procesos_copia = <<>>
    /\ cola = <<>>
    /\ gantt = <<>>
    /\ tiempo_actual = 0
    /\ i = 0
    /\ metricas = SinMetricas
    /\ corridas = 0
    /\ resultado = SinResultado
    /\ archivo = SinArchivo

\* ---------------------------------------------------------------- actions
\* SistemaPlanificacion.ejecutar_fcfs up to the first loop iteration of
\* planificar: reiniciar every process, then planificar's deepcopy and sort
ejecutar_fcfs ==
    /\ pc = "menu"
    /\ procesos # <<>>
    /\ corridas < MaxCorridas
    /\ LET reiniciados == [k \in 1..Len(procesos) |-> reiniciar(procesos[k])]
       IN /\ procesos' = reiniciados
          /\ PonerSim(SimInicialFCFS(reiniciados))
    /\ politica' = "FCFS"
    /\ quantum' = 0
    /\ pc' = "fcfs"
    /\ corridas' = corridas + 1
    /\ UNCHANGED metricas
    /\ UNCHANGED <<resultado, archivo>>

\* SistemaPlanificacion.ejecutar_round_robin with the quantum read from the
\* user, up to the first loop iteration of planificar
ejecutar_round_robin(q) ==
    /\ pc = "menu"
    /\ procesos # <<>>
    /\ corridas < MaxCorridas
    /\ q > 0
    /\ LET reiniciados == [k \in 1..Len(procesos) |-> reiniciar(procesos[k])]
       IN /\ procesos' = reiniciados
          /\ PonerSim(SimInicialRR(reiniciados))
    /\ politica' = "RR"
    /\ quantum' = q
    /\ pc' = "rr"
    /\ corridas' = corridas + 1
    /\ UNCHANGED metricas
    /\ UNCHANGED <<resultado, archivo>>

\* FCFSScheduler.planificar: one iteration of "for proceso in procesos_copia"
PasoFCFS ==
    /\ pc = "fcfs"
    /\ i <= Len(procesos_copia)
    /\ PonerSim(IterFCFS(Sim))
    /\ UNCHANGED <<procesos, pc, politica, quantum, metricas, corridas>>
    /\ UNCHANGED <<resultado, archivo>>

\* RoundRobinScheduler.planificar: one iteration of "while cola"
PasoRR_sin_copia ==
    /\ pc = "rr"
    /\ cola # <<>>
    /\ PonerSim(IterRR(Sim, quantum))
    /\ procesos' = IterRR(Sim, quantum).procesos_copia
    /\ UNCHANGED <<pc, politica, quantum, metricas, corridas>>
    /\ UNCHANGED <<resultado, archivo>>

PasoRR ==
    /\ pc = "rr"
    /\ cola # <<>>
    /\ PonerSim(IterRR(Sim, quantum))
    /\ UNCHANGED <<procesos, pc, politica, quantum, metricas, corridas>>
    /\ UNCHANGED <<resultado, archivo>>

\* FCFSScheduler.planificar: the publication loop and the return
RetornoFCFS ==
    /\ pc = "fcfs"
    /\ i > Len(procesos_copia)
    /\ procesos' = Publicar(procesos, procesos_copia)
    /\ pc' = "retorno"
    /\ UNCHANGED <<politica, quantum, procesos_copia, cola, gantt,
                   tiempo_actual, i, metricas, corridas>>
    /\ UNCHANGED <<resultado, archivo>>

\* RoundRobinScheduler.planificar: the publication loop and the return
RetornoRR ==
    /\ pc = "rr"
    /\ cola = <<>>
    /\ procesos' = Publicar(procesos, procesos_copia)
    /\ pc' = "retorno"
    /\ UNCHANGED <<politica, quantum, procesos_copia, cola, gantt,
                   tiempo_actual, i, metricas, corridas>>
    /\ UNCHANGED <<resultado, archivo>>

\* the handler's call MetricasCalculator.calcular_metricas(procesos, gantt)
CalcularMetricas ==
    /\ pc = "retorno"
    /\ metricas' = calcular_metricas(procesos, gantt)
    /\ pc' = "informe"
    /\ UNCHANGED <<procesos, politica, quantum, procesos_copia, cola, gantt,
                   tiempo_actual, i, corridas>>
    /\ UNCHANGED <<resultado, archivo>>

\* the handler returns to the menu; its locals (gantt, metricas) and those
\* of planificar are gone, the collection keeps the published times
VolverAlMenu ==
    /\ pc = "informe"
    /\ pc' = "menu"
    /\ PonerSim(SimVacia)
    /\ metricas' = SinMetricas
    /\ politica' = ""
    /\ quantum' = 0
    /\ UNCHANGED <<procesos, corridas>>
    /\ UNCHANGED <<resultado, archivo>>

Next ==
    \/ ejecutar_fcfs
    \/ \E q \in 1..MaxQuantum : ejecutar_round_robin(q)
    \/ PasoFCFS
    \/ PasoRR
    \/ RetornoFCFS
    \/ RetornoRR
    \/ CalcularMetricas
    \/ VolverAlMenu

Spec == Init /\ [][Next]_vars

\* ------------------------------------------------ direct calls (tests)
\* The schedulers called directly, as the unit tests do: no reiniciar before
\* planificar, the list may be empty.

\* the fixtures of the unit tests: processes constructed with the default
\* tiempo_llegada, Proceso(pid, duracion, prioridad)
InitAPI ==
    /\ \E n \in 0..MaxProcs :
         \E d \in [1..n -> 1..MaxDuracion] :
            procesos = [k \in 1..n |-> Proceso(Pids[k], d[k], 1, 0)]
    /\ pc = "menu"
    /\ politica = ""
    /\ quantum = 0
    /\ PonerSimInicial
    /\ metricas = SinMetricas
    /\ corridas = 0
    /\ resultado = SinResultado
    /\ archivo = SinArchivo

\* scheduler = RoundRobinScheduler(quantum=q)
CrearRoundRobin(q) ==
    /\ pc = "menu"
    /\ corridas < MaxCorridas
    /\ resultado' = RoundRobinScheduler(q)
    /\ UNCHANGED <<archivo, procesos, pc, politica, quantum, procesos_copia, cola,
                   gantt, tiempo_actual, i, metricas, corridas>>

\* gantt = FCFSScheduler().planificar(procesos)
PlanificarFCFS ==
    /\ pc = "menu"
    /\ corridas < MaxCorridas
    /\ LET r == planificar_fcfs(procesos)
       IN /\ procesos' = r.procesos
          /\ PonerSim([SimVacia EXCEPT !.gantt = r.gantt])
          /\ resultado' = [op |-> "planificar", args |-> <<"FCFS">>,
                           error |-> r.error, valor |-> Some(r.gantt)]
    /\ politica' = "FCFS"
    /\ quantum' = 0
    /\ pc' = "retorno"
    /\ corridas' = corridas + 1
    /\ UNCHANGED <<metricas, archivo>>

\* gantt = scheduler.planificar(procesos), scheduler being the
\* RoundRobinScheduler just constructed
PlanificarRR ==
    /\ pc = "menu"
    /\ corridas < MaxCorridas
    /\ resultado.op = "RoundRobinScheduler"
    /\ resultado.valor # None
    /\ LET scheduler == resultado.valor[1]
           r == planificar_rr(procesos, scheduler.quantum)
       IN /\ procesos' = r.procesos
          /\ PonerSim([SimVacia EXCEPT !.gantt = r.gantt])
          /\ resultado' = [op |-> "planificar", args |-> <<"RR">>,
                           error |-> r.error, valor |-> Some(r.gantt)]
          /\ quantum' = scheduler.quantum
    /\ politica' = "RR"
    /\ pc' = "retorno"
    /\ corridas' = corridas + 1
    /\ UNCHANGED <<metricas, archivo>>

NextAPI ==
    \/ \E q \in (-1)..MaxQuantum : CrearRoundRobin(q)
    \/ PlanificarFCFS
    \/ PlanificarRR
    \/ CalcularMetricas
    \/ VolverAlMenu

SpecAPI == InitAPI /\ [][NextAPI]_vars

\* ------------------------------------- calcular_metricas called directly
\* calcular_metricas on hand-written lists, as test_metrics.py does: the
\* segments need not come from a scheduler.

\* segments (pid, inicio, fin) with inicio < fin <= MaxTiempo, for the pids
\* of the collection and one pid that no process has
SegmentosDados ==
    {s \in {<<Pids[k], a, b>> : k \in 1..(MaxProcs + 1),
                                a \in 0..MaxTiempo, b \in 0..MaxTiempo} :
        s[2] < s[3]}

\* every list of up to MaxSegmentos of them, in any order
GanttsDados ==
    UNION {[1..n -> SegmentosDados] : n \in 0..MaxSegmentos}

\* processes P1..Pn with duracion k and tiempo_llegada k - 1 at position k,
\* and a segment list to compute the metrics of
InitMetricas ==
    /\ \E n \in 0..MaxProcs :
          procesos = [k \in 1..n |-> Proceso(Pids[k], k, 1, k - 1)]
    /\ gantt \in GanttsDados
    /\ pc = "retorno"
    /\ politica = ""
    /\ quantum = 0
    /\ procesos_copia = <<>>
    /\ cola = <<>>
    /\ tiempo_actual = 0
    /\ i = 0
    /\ metricas = SinMetricas
    /\ corridas = 0
    /\ resultado = SinResultado
    /\ archivo = SinArchivo

NextMetricas ==
    \/ CalcularMetricas
    \/ VolverAlMenu

SpecMetricas == InitMetricas /\ [][NextMetricas]_vars

\* --------------------------------------------- Proceso called directly
\* Python values passed to Proceso(...): the type name and the value.  A
\* str carries its text; every other type carries a number (True is 1,
\* False and None are 0), so that `not v` and the comparisons read it.
Valor(tipo, val) == [tipo |-> tipo, val |-> val]

\* the default of the tiempo_llegada parameter applies when it is omitted
Omitido == Valor("omitido", 0)

\* isinstance(v, int): bool is a subclass of int
EsEntero(v) == v.tipo \in {"int", "bool"}

\* str.strip on the texts used as pid
strip(s) ==
    CASE s = "   " -> ""
      [] s = " P1 " -> "P1"
      [] OTHER -> s

\* `not v`: None, "", 0, 0.0 and False are falsy
EsFalso(v) ==
    IF v.tipo = "str" THEN v.val = "" ELSE v.val = 0

PidInvalido(pid) ==
    \/ EsFalso(pid)
    \/ pid.tipo # "str"
    \/ strip(pid.val) = ""

DuracionInvalida_acepta_cero(duracion) ==
    \/ ~EsEntero(duracion)
    \/ duracion.val < 0

DuracionInvalida(duracion) ==
    \/ ~EsEntero(duracion)
    \/ duracion.val <= 0

PrioridadInvalida(prioridad) == ~EsEntero(prioridad)

LlegadaInvalida(tiempo_llegada) ==
    \/ ~EsEntero(tiempo_llegada)
    \/ tiempo_llegada.val < 0

\* Proceso.__init__ with its validation: the first failed check raises
NuevoProceso(pid, duracion, prioridad, llegada) ==
    LET tiempo_llegada == IF llegada = Omitido THEN Valor("int", 0)
                          ELSE llegada
        args == <<pid, duracion, prioridad, llegada>>
        Falla(msg) == [op |-> "Proceso", args |-> args,
                       error |-> msg, valor |-> None]
    IN  IF PidInvalido(pid)
        THEN Falla("ValueError: El PID no puede estar vacío")
        ELSE IF DuracionInvalida(duracion)
        THEN Falla("ValueError: La duración debe ser un entero positivo")
        ELSE IF PrioridadInvalida(prioridad)
        THEN Falla("ValueError: La prioridad debe ser un entero")
        ELSE IF LlegadaInvalida(tiempo_llegada)
        THEN Falla("ValueError: El tiempo de llegada debe ser un entero no negativo")
        ELSE [op |-> "Proceso", args |-> args, error |-> "",
              valor |-> Some(Proceso(pid.val, duracion.val, prioridad.val,
                                     tiempo_llegada.val))]

\* argument values tried for each parameter
PidsDados ==
    {Valor("str", "P1"), Valor("str", " P1 "), Valor("str", ""),
     Valor("str", "   "), Valor("NoneType", 0), Valor("int", 7)}

NoEnteros ==
    {Valor("str", "alta"), Valor("float", 2), Valor("NoneType", 0)}

DuracionesDadas ==
    {Valor("int", d) : d \in (-1)..MaxDuracion} \cup {Valor("bool", 1)}
        \cup NoEnteros

PrioridadesDadas ==
    {Valor("int", 1), Valor("int", -1), Valor("bool", 0)} \cup NoEnteros

LlegadasDadas ==
    {Valor("int", a) : a \in (-1)..MaxLlegada} \cup {Omitido} \cup NoEnteros

\* no object yet
InitProceso ==
    /\ procesos = <<>>
    /\ pc = "menu"
    /\ politica = ""
    /\ quantum = 0
    /\ PonerSimInicial
    /\ metricas = SinMetricas
    /\ corridas = 0
    /\ resultado = SinResultado
    /\ archivo = SinArchivo

\* proceso = Proceso(pid, duracion, prioridad[, tiempo_llegada])
CrearProceso(pid, duracion, prioridad, llegada) ==
    /\ procesos = <<>>
    /\ resultado.op = ""
    /\ resultado' = NuevoProceso(pid, duracion, prioridad, llegada)
    /\ procesos' = resultado'.valor
    /\ UNCHANGED <<archivo, pc, politica, quantum, procesos_copia, cola, gantt,
                   tiempo_actual, i, metricas, corridas>>

\* proceso.tiempo_restante = r; proceso.tiempo_inicio = ini;
\* proceso.tiempo_fin = fin: the fields a simulation writes
AsignarTiempos(r, ini, fin) ==
    /\ procesos # <<>>
    /\ r <= procesos[1].duracion
    /\ procesos' = <<[procesos[1] EXCEPT !.tiempo_restante = r,
                                         !.tiempo_inicio = ini,
                                         !.tiempo_fin = fin]>>
    /\ resultado' = [op |-> "asignar", args |-> <<>>, error |-> "",
                     valor |-> None]
    /\ UNCHANGED <<archivo, pc, politica, quantum, procesos_copia, cola, gantt,
                   tiempo_actual, i, metricas, corridas>>

\* proceso.reiniciar(); args keeps the object as it was before the call
ReiniciarObjeto ==
    /\ procesos # <<>>
    /\ procesos' = <<reiniciar(procesos[1])>>
    /\ resultado' = [op |-> "reiniciar", args |-> <<procesos[1]>>,
                     error |-> "", valor |-> None]
    /\ UNCHANGED <<archivo, pc, politica, quantum, procesos_copia, cola, gantt,
                   tiempo_actual, i, metricas, corridas>>

TiemposDados == {None} \cup {Some(t) : t \in 0..MaxTiempo}

NextProceso ==
    \/ \E pid \in PidsDados, duracion \in DuracionesDadas,
          prioridad \in PrioridadesDadas, llegada \in LlegadasDadas :
            CrearProceso(pid, duracion, prioridad, llegada)
    \/ \E r \in 0..MaxDuracion, ini \in TiemposDados, fin \in TiemposDados :
            AsignarTiempos(r, ini, fin)
    \/ ReiniciarObjeto

SpecProceso == InitProceso /\ [][NextProceso]_vars

\* ------------------------------------------------- repositorio.py
\* self._procesos is a dict from pid to Proceso.  It is kept as the
\* sequence of its values in insertion order; the key of a value is its
\* pid, which is the key agregar_proceso stores it under.

\* pid in self._procesos
Contiene(d, pid) == \E k \in 1..Len(d) : d[k].pid = pid

\* self._procesos[pid] = proceso: a new key goes last, an existing key keeps
\* its place and takes the new value
DictSet(d, pid, proceso) ==
    IF Contiene(d, pid)
    THEN [k \in 1..Len(d) |-> IF d[k].pid = pid THEN proceso ELSE d[k]]
    ELSE Append(d, proceso)

\* del self._procesos[pid]
DictDel(d, pid) == SelectSeq(d, LAMBDA p : p.pid # pid)

\* isinstance(obj, Proceso)
EsProceso(obj) == "pid" \in DOMAIN obj

\* RepositorioProcesos.agregar_proceso: the dict after the call, the value
\* returned and the exception raised
agregar_proceso_sin_duplicado(d, proceso) ==
    IF ~EsProceso(proceso)
    THEN [procesos |-> d, valor |-> None,
          error |-> "ValueError: El objeto debe ser una instancia de Proceso"]
    ELSE [procesos |-> DictSet(d, proceso.pid, proceso),
          valor |-> Some(TRUE), error |-> ""]

agregar_proceso(d, proceso) ==
    IF ~EsProceso(proceso)
    THEN [procesos |-> d, valor |-> None,
          error |-> "ValueError: El objeto debe ser una instancia de Proceso"]
    ELSE IF Contiene(d, proceso.pid)
    THEN [procesos |-> d, valor |-> Some(FALSE), error |-> ""]
    ELSE [procesos |-> DictSet(d, proceso.pid, proceso),
          valor |-> Some(TRUE), error |-> ""]

\* RepositorioProcesos.eliminar_proceso
eliminar_proceso_sin_borrar(d, pid) ==
    IF Contiene(d, pid)
    THEN [procesos |-> d, valor |-> Some(TRUE), error |-> ""]
    ELSE [procesos |-> d, valor |-> Some(FALSE), error |-> ""]

eliminar_proceso(d, pid) ==
    IF Contiene(d, pid)
    THEN [procesos |-> DictDel(d, pid), valor |-> Some(TRUE), error |-> ""]
    ELSE [procesos |-> d, valor |-> Some(FALSE), error |-> ""]

\* RepositorioProcesos.obtener_proceso: self._procesos.get(pid)
obtener_proceso(d, pid) ==
    IF Contiene(d, pid)
    THEN Some(d[CHOOSE k \in 1..Len(d) : d[k].pid = pid])
    ELSE None

\* RepositorioProcesos.listar_procesos: list(self._procesos.values())
listar_procesos(d) == d

\* RepositorioProcesos.cantidad_procesos
cantidad_procesos(d) == Len(d)

\* RepositorioProcesos.__len__: len(repo)
len(d) == Len(d)

\* objects handed to agregar_proceso: processes with the pids P1..PMaxProcs
ProcesosDados ==
    {Proceso(Pids[k], d, 1, 0) : k \in 1..MaxProcs, d \in 1..MaxDuracion}

\* and one object that is not a Proceso
NoProceso == Valor("str", "no es un proceso")

\* pids asked for: those of the processes and one that is never stored
PidsPedidos == {Pids[k] : k \in 1..(MaxProcs + 1)}

\* RepositorioProcesos(): an empty dict
InitRepo ==
    /\ procesos = <<>>
    /\ pc = "menu"
    /\ politica = ""
    /\ quantum = 0
    /\ PonerSimInicial
    /\ metricas = SinMetricas
    /\ corridas = 0
    /\ resultado = SinResultado
    /\ archivo = SinArchivo

AgregarProceso(obj) ==
    LET r == agregar_proceso(procesos, obj)
    IN  /\ procesos' = r.procesos
        /\ resultado' = [op |-> "agregar_proceso", args |-> <<obj>>,
                         error |-> r.error, valor |-> r.valor]
        /\ UNCHANGED <<archivo, pc, politica, quantum, procesos_copia, cola, gantt,
                       tiempo_actual, i, metricas, corridas>>

EliminarProceso(pid) ==
    LET r == eliminar_proceso(procesos, pid)
    IN  /\ procesos' = r.procesos
        /\ resultado' = [op |-> "eliminar_proceso", args |-> <<pid>>,
                         error |-> r.error, valor |-> r.valor]
        /\ UNCHANGED <<archivo, pc, politica, quantum, procesos_copia, cola, gantt,
                       tiempo_actual, i, metricas, corridas>>

ObtenerProceso(pid) ==
    /\ resultado' = [op |-> "obtener_proceso", args |-> <<pid>>,
                     error |-> "", valor |-> obtener_proceso(procesos, pid)]
    /\ UNCHANGED <<archivo, procesos, pc, politica, quantum, procesos_copia, cola,
                   gantt, tiempo_actual, i, metricas, corridas>>

\* RepositorioProcesos.limpiar: self._procesos.clear()
Limpiar ==
    /\ procesos' = <<>>
    /\ resultado' = [op |-> "limpiar", args |-> <<>>, error |-> "",
                     valor |-> None]
    /\ UNCHANGED <<archivo, pc, politica, quantum, procesos_copia, cola, gantt,
                   tiempo_actual, i, metricas, corridas>>

NextRepo ==
    \/ \E obj \in ProcesosDados : AgregarProceso(obj)
    \/ AgregarProceso(NoProceso)
    \/ \E pid \in PidsPedidos : EliminarProceso(pid)
    \/ \E pid \in PidsPedidos : ObtenerProceso(pid)
    \/ Limpiar

SpecRepo == InitRepo /\ [][NextRepo]_vars

\* ------------------------------------- one direct call, any prioridad
\* prioridad values given to the processes
Prioridades == {1, 2}

\* up to MaxProcs processes Proceso(pid, duracion, prioridad, tiempo_llegada),
\* arriving at once or MaxLlegada later
InitPrioridad ==
    /\ \E n \in 0..MaxProcs :
         \E d \in [1..n -> 1..MaxDuracion], a \in [1..n -> {0, MaxLlegada}],
            pr \in [1..n -> Prioridades] :
            procesos = [k \in 1..n |-> Proceso(Pids[k], d[k], pr[k], a[k])]
    /\ pc = "menu"
    /\ politica = ""
    /\ quantum = 0
    /\ PonerSimInicial
    /\ metricas = SinMetricas
    /\ corridas = 0
    /\ resultado = SinResultado
    /\ archivo = SinArchivo

\* a single planificar call of either scheduler
NextPrioridad ==
    \/ \E q \in 1..MaxQuantum : CrearRoundRobin(q)
    \/ PlanificarFCFS
    \/ PlanificarRR

SpecPrioridad == InitPrioridad /\ [][NextPrioridad]_vars

\* --------------------------------------------- text, as files hold it
\* A str is a TLA+ string; written to a file it is its characters.  The
\* table covers the texts the model uses: the pids (one of them holds a
\* carriage return, which Proceso accepts) and the names of the columns.
Caracteres(s) ==
    CASE s = "P1" -> <<"P", "1">>
      [] s = "P2" -> <<"P", "2">>
      [] s = "a\rb" -> <<"a", "\r", "b">>
      [] s = "a\nb" -> <<"a", "\n", "b">>
      [] s = "" -> <<>>
      [] s = "pid" -> <<"p", "i", "d">>
      [] s = "duracion" -> <<"d", "u", "r", "a", "c", "i", "o", "n">>
      [] s = "prioridad" -> <<"p", "r", "i", "o", "r", "i", "d", "a", "d">>
      [] s = "tiempo_llegada" ->
            <<"t", "i", "e", "m", "p", "o", "_", "l", "l", "e", "g", "a",
              "d", "a">>
      [] OTHER -> <<"?">>

Textos ==
    {"P1", "P2", "a\rb", "a\nb", "", "pid", "duracion", "prioridad",
     "tiempo_llegada"}

\* the str with these characters
Texto(chars) ==
    IF \E s \in Textos : Caracteres(s) = chars
    THEN CHOOSE s \in Textos : Caracteres(s) = chars
    ELSE "?"

Cifras == <<"0", "1", "2", "3", "4", "5", "6", "7", "8", "9">>

\* str(n) of an int
RECURSIVE DecimalNat(_)
DecimalNat(n) ==
    IF n < 10 THEN <<Cifras[n + 1]>>
    ELSE DecimalNat(n \div 10) \o <<Cifras[(n % 10) + 1]>>

Decimal(n) == IF n < 0 THEN <<"-">> \o DecimalNat(0 - n) ELSE DecimalNat(n)

EsCifra(c) == \E d \in 1..10 : Cifras[d] = c

ValorCifra(c) == (CHOOSE d \in 1..10 : Cifras[d] = c) - 1

RECURSIVE NatDe(_)
NatDe(chars) ==
    IF chars = <<>> THEN 0
    ELSE 10 * NatDe(SubSeq(chars, 1, Len(chars) - 1))
         + ValorCifra(chars[Len(chars)])

\* surrounding blanks removed, as int() does before reading the digits
RECURSIVE SinBlancos(_)
SinBlancos(chars) ==
    IF chars = <<>> THEN chars
    ELSE IF Head(chars) = " " THEN SinBlancos(Tail(chars))
    ELSE IF chars[Len(chars)] = " "
         THEN SinBlancos(SubSeq(chars, 1, Len(chars) - 1))
    ELSE chars

\* int(text): an optional sign and decimal digits, else ValueError
int_de_texto(chars) ==
    LET t == SinBlancos(chars)
        signo == t # <<>> /\ Head(t) \in {"-", "+"}
        cifras == IF signo THEN Tail(t) ELSE t
    IN  IF cifras = <<>> \/ \E k \in 1..Len(cifras) : ~EsCifra(cifras[k])
        THEN [error |-> "ValueError", valor |-> 0]
        ELSE [error |-> "",
              valor |-> IF signo /\ Head(t) = "-" THEN 0 - NatDe(cifras)
                        ELSE NatDe(cifras)]

\* ------------------------------------------------ the csv module
\* csv.writer(f, delimiter=';'): a field is quoted when it holds the
\* delimiter, a quote or a line-end character, its quotes doubled
RECURSIVE DoblarComillas(_)
DoblarComillas(campo) ==
    IF campo = <<>> THEN <<>>
    ELSE (IF Head(campo) = "\"" THEN <<"\"", "\"">> ELSE <<Head(campo)>>)
         \o DoblarComillas(Tail(campo))

CampoCSV(campo) ==
    IF \E k \in 1..Len(campo) : campo[k] \in {";", "\"", "\r", "\n"}
    THEN <<"\"">> \o DoblarComillas(campo) \o <<"\"">>
    ELSE campo

\* writer.writerow(campos): the fields joined by ';', ended by "\r\n"
RECURSIVE writerow(_)
writerow(campos) ==
    IF campos = <<>> THEN <<"\r", "\n">>
    ELSE CampoCSV(Head(campos))
         \o (IF Len(campos) > 1 THEN <<";">> ELSE <<>>)
         \o writerow(Tail(campos))

RECURSIVE writerows(_)
writerows(filas) ==
    IF filas = <<>> THEN <<>>
    ELSE writerow(Head(filas)) \o writerows(Tail(filas))

\* open(ruta, 'r'): reading in text mode turns "\r\n" and "\r" into "\n"
SaltosUniversales_intactos(t) == t

RECURSIVE SaltosUniversales(_)
SaltosUniversales(t) ==
    LET cr == {p \in 1..Len(t) : t[p] = "\r"}
    IN  IF cr = {} THEN t
        ELSE LET p == CHOOSE p \in cr : \A q \in cr : p <= q
                 resto == IF p < Len(t) /\ t[p + 1] = "\n" THEN p + 2 ELSE p + 1
             IN  SubSeq(t, 1, p - 1) \o <<"\n">> \o
                 SaltosUniversales(SubSeq(t, resto, Len(t)))

\* where the unquoted text that starts at k ends: the position of the next
\* delimiter or line end, Len(t) + 1 when there is none
FinDeTexto(t, k) ==
    LET fin == {p \in k..Len(t) : t[p] \in {";", "\n", "\r"}}
    IN  IF fin = {} THEN Len(t) + 1
        ELSE CHOOSE p \in fin : \A q \in fin : p <= q

\* the reader inside a quoted field, at position k with campo read so far:
\* a doubled quote is one quote, a single quote closes the quoting and what
\* follows up to the next delimiter or line end is taken as it is.  The
\* field and the position where it ends.
RECURSIVE EnComillas(_, _, _)
EnComillas(t, k, campo) ==
    IF k > Len(t) THEN [campo |-> campo, k |-> k]
    ELSE IF t[k] # "\"" THEN EnComillas(t, k + 1, Append(campo, t[k]))
    ELSE IF k < Len(t) /\ t[k + 1] = "\""
         THEN EnComillas(t, k + 2, Append(campo, "\""))
    ELSE LET f == FinDeTexto(t, k + 1)
         IN  [campo |-> campo \o SubSeq(t, k + 1, f - 1), k |-> f]

\* the field that starts at position k and the position where it ends
LeerCampo(t, k) ==
    IF k <= Len(t) /\ t[k] = "\"" THEN EnComillas(t, k + 1, <<>>)
    ELSE LET f == FinDeTexto(t, k)
         IN  [campo |-> SubSeq(t, k, f - 1), k |-> f]

\* csv.reader(f, delimiter=';') over the text read: the rows, each the list
\* of its fields, as DictReader takes them.  est is the state of the reader:
\* "registro" (at the start of a row) or "campo" (at the start of a field of
\* the row fila).  DictReader skips the empty row of an empty line.
RECURSIVE reader(_, _, _, _, _)
reader(t, k, est, fila, filas) ==
    IF est = "registro"
    THEN IF k > Len(t) THEN filas
         ELSE IF t[k] \in {"\n", "\r"}
              THEN reader(t, k + 1, "registro", <<>>, filas)
              ELSE reader(t, k, "campo", <<>>, filas)
    ELSE LET f == LeerCampo(t, k)
             leida == Append(fila, f.campo)
         IN  IF f.k > Len(t) THEN Append(filas, leida)
             ELSE IF t[f.k] = ";"
                  THEN reader(t, f.k + 1, "campo", leida, filas)
                  ELSE reader(t, f.k + 1, "registro", <<>>,
                              Append(filas, leida))

\* ------------------------------------ Proceso.to_dict / Proceso.from_dict
\* a key that a dict does not have
Ausente == Valor("ausente", 0)

\* Proceso.to_dict: the four constructor fields, as Python values
to_dict(p) ==
    [pid |-> Valor("str", p.pid), duracion |-> Valor("int", p.duracion),
     prioridad |-> Valor("int", p.prioridad),
     tiempo_llegada |-> Valor("int", p.tiempo_llegada)]

\* int(v) of a Python value; a str read from a CSV file is held as its
\* characters, Valor("texto", chars)
int(v) ==
    CASE v.tipo \in {"int", "bool", "float"} -> [error |-> "", valor |-> v.val]
      [] v.tipo = "str" -> int_de_texto(Caracteres(v.val))
      [] v.tipo = "texto" -> int_de_texto(v.val)
      [] OTHER -> [error |-> "TypeError", valor |-> 0]

\* Proceso(pid=pid, duracion=int(duracion), prioridad=int(prioridad),
\* tiempo_llegada=int(tiempo_llegada)) on dict lookups: a missing key
\* raises KeyError where the code indexes, and the arguments are evaluated
\* in this order before __init__ validates them
ProcesoDesde(pid, duracion, prioridad, tiempo_llegada) ==
    LET Falla(e) == [error |-> e, valor |-> None]
    IN  IF pid = Ausente \/ duracion = Ausente THEN Falla("KeyError")
        ELSE IF int(duracion).error # "" THEN Falla(int(duracion).error)
        ELSE IF prioridad = Ausente THEN Falla("KeyError")
        ELSE IF int(prioridad).error # "" THEN Falla(int(prioridad).error)
        ELSE IF int(tiempo_llegada).error # ""
             THEN Falla(int(tiempo_llegada).error)
        ELSE LET r == NuevoProceso(pid,
                                   Valor("int", int(duracion).valor),
                                   Valor("int", int(prioridad).valor),
                                   Valor("int", int(tiempo_llegada).valor))
             IN  [error |-> IF r.error = "" THEN "" ELSE "ValueError",
                  valor |-> r.valor]

\* Proceso.from_dict: data.get('tiempo_llegada', 0) for the last argument
from_dict_sin_defecto(data) ==
    ProcesoDesde(data.pid, data.duracion, data.prioridad, data.tiempo_llegada)

from_dict(data) ==
    ProcesoDesde(data.pid, data.duracion, data.prioridad,
                 IF data.tiempo_llegada = Ausente THEN Valor("int", 0)
                 ELSE data.tiempo_llegada)

\* ------------------------------------------------ the json module
\* json.dump: a Python value as the JSON value written to the file
json_dump(v) ==
    CASE v.tipo = "str" -> Valor("string", v.val)
      [] v.tipo = "bool" -> Valor(IF v.val = 1 THEN "true" ELSE "false", v.val)
      [] v.tipo = "NoneType" -> Valor("null", 0)
      [] v.tipo = "ausente" -> v
      [] OTHER -> Valor("number", v.val)

\* json.load: the Python value of a JSON value
json_load(j) ==
    CASE j.tipo = "string" -> Valor("str", j.val)
      [] j.tipo \in {"true", "false"} -> Valor("bool", j.val)
      [] j.tipo = "null" -> Valor("NoneType", 0)
      [] j.tipo = "ausente" -> j
      [] OTHER -> Valor("int", j.val)

\* json.dump of a dict with the four keys: the JSON object written
json_dump_dict(o) ==
    [pid |-> json_dump(o.pid), duracion |-> json_dump(o.duracion),
     prioridad |-> json_dump(o.prioridad),
     tiempo_llegada |-> json_dump(o.tiempo_llegada)]

\* json.load of a JSON object: the dict handed to from_dict
json_load_dict(o) ==
    [pid |-> json_load(o.pid), duracion |-> json_load(o.duracion),
     prioridad |-> json_load(o.prioridad),
     tiempo_llegada |-> json_load(o.tiempo_llegada)]

\* ------------------------------------------ repositorio.py: persistence
\* the file written: its format, its content (a JSON array of objects, or
\* the characters of a CSV text) and, to state what was saved, the
\* (pid, duracion, prioridad, tiempo_llegada) of the processes it describes
Archivo(formato, contenido, descritos) ==
    [existe |-> TRUE, formato |-> formato, contenido |-> contenido,
     descritos |-> descritos]

\* RepositorioProcesos.guardar_json
guardar_json(d) ==
    Archivo("json",
            [k \in 1..Len(d) |-> json_dump_dict(to_dict(d[k]))],
            [k \in 1..Len(d) |-> <<d[k].pid, d[k].duracion, d[k].prioridad,
                                   d[k].tiempo_llegada>>])

\* RepositorioProcesos.guardar_csv
guardar_csv(d) ==
    Archivo("csv",
            writerow(<<Caracteres("pid"), Caracteres("duracion"),
                       Caracteres("prioridad"), Caracteres("tiempo_llegada")>>)
            \o writerows([k \in 1..Len(d) |->
                            <<Caracteres(d[k].pid), Decimal(d[k].duracion),
                              Decimal(d[k].prioridad),
                              Decimal(d[k].tiempo_llegada)>>]),
            [k \in 1..Len(d) |-> <<d[k].pid, d[k].duracion, d[k].prioridad,
                                   d[k].tiempo_llegada>>])

\* the loop "for datos in procesos_lista" of cargar_json from record k on:
\* the dict when the loop ends or from_dict raises, and the exception
RECURSIVE CargarJSONDesde(_, _, _)
CargarJSONDesde(d, lista, k) ==
    IF k > Len(lista) THEN [procesos |-> d, error |-> ""]
    ELSE LET r == from_dict(json_load_dict(lista[k]))
         IN  IF r.error # ""
             THEN [procesos |-> d,
                   error |-> "IOError: Error al cargar el archivo JSON"]
             ELSE CargarJSONDesde(DictSet(d, r.valor[1].pid, r.valor[1]),
                                  lista, k + 1)

\* RepositorioProcesos.cargar_json: open, json.load, clear, load
cargar_json_limpia_antes(d, arch) ==
    IF ~arch.existe
    THEN [procesos |-> <<>>, error |-> "IOError: Archivo no encontrado"]
    ELSE CargarJSONDesde(<<>>, arch.contenido, 1)

cargar_json(d, arch) ==
    IF ~arch.existe
    THEN [procesos |-> d, error |-> "IOError: Archivo no encontrado"]
    ELSE CargarJSONDesde(<<>>, arch.contenido, 1)

\* csv.DictReader: the value of a row under a column name: Ausente when the
\* header has no such column (fila[nombre] raises KeyError), None when the
\* row is shorter than the header, else the text of the field
Columna(encabezado, fila, nombre) ==
    IF \A c \in 1..Len(encabezado) : encabezado[c] # Caracteres(nombre)
    THEN Ausente
    ELSE LET c == CHOOSE c \in 1..Len(encabezado) :
                     /\ encabezado[c] = Caracteres(nombre)
                     /\ \A b \in 1..(c - 1) : encabezado[b] # Caracteres(nombre)
         IN  IF c > Len(fila) THEN Valor("NoneType", 0)
             ELSE Valor("texto", fila[c])

\* fila['pid'] as the str handed to Proceso
PidCSV(v) == IF v.tipo = "texto" THEN Valor("str", Texto(v.val)) ELSE v

\* the loop "for fila in reader" of cargar_csv from row k on
RECURSIVE CargarCSVDesde(_, _, _, _)
CargarCSVDesde(d, encabezado, filas, k) ==
    IF k > Len(filas) THEN [procesos |-> d, error |-> ""]
    ELSE LET col(nombre) == Columna(encabezado, filas[k], nombre)
             llegada == IF col("tiempo_llegada") = Ausente
                        THEN Valor("int", 0)
                        ELSE col("tiempo_llegada")
             r == ProcesoDesde(PidCSV(col("pid")), col("duracion"),
                               col("prioridad"), llegada)
         IN  IF r.error = ""
             THEN CargarCSVDesde(DictSet(d, r.valor[1].pid, r.valor[1]),
                                 encabezado, filas, k + 1)
             ELSE [procesos |-> d,
                   error |->
                     CASE r.error = "KeyError" ->
                            "ValueError: Falta columna requerida en CSV"
                       [] r.error = "ValueError" ->
                            "ValueError: Error en formato de datos CSV"
                       [] OTHER -> "IOError: Error al cargar el archivo CSV"]

\* RepositorioProcesos.cargar_csv: open, DictReader, clear, load
cargar_csv(d, arch) ==
    IF ~arch.existe
    THEN [procesos |-> d, error |-> "IOError: Archivo no encontrado"]
    ELSE LET filas == reader(SaltosUniversales(arch.contenido), 1,
                             "registro", <<>>, <<>>)
         IN  IF filas = <<>> THEN [procesos |-> <<>>, error |-> ""]
             ELSE CargarCSVDesde(<<>>, Head(filas), Tail(filas), 1)

\* ------------------------------------- the repository and its files
\* processes handed to agregar_proceso
ProcesosArchivo ==
    {Proceso("P1", MaxDuracion + 9, -1, MaxLlegada), Proceso("a\rb", 2, 1, 0)}

\* a JSON object of a hand-written file
ObjetoJSON(pid, duracion, prioridad, tiempo_llegada) ==
    [pid |-> Valor("string", pid), duracion |-> Valor("number", duracion),
     prioridad |-> Valor("number", prioridad),
     tiempo_llegada |-> tiempo_llegada]

\* files written by hand: records without tiempo_llegada, and files whose
\* second record has duracion 0
ArchivosDados ==
    {SinArchivo,
     Archivo("json", <<ObjetoJSON("P2", 2, 1, Ausente)>>, <<<<"P2", 2, 1, 0>>>>),
     Archivo("json", <<ObjetoJSON("P2", 2, 1, Valor("number", 1)),
                       ObjetoJSON("P1", 0, 1, Ausente)>>,
             <<<<"P2", 2, 1, 1>>, <<"P1", 0, 1, 0>>>>),
     Archivo("csv",
             writerows(<<<<Caracteres("pid"), Caracteres("duracion"),
                           Caracteres("prioridad")>>,
                         <<Caracteres("P2"), Decimal(2), Decimal(1)>>>>),
             <<<<"P2", 2, 1, 0>>>>),
     Archivo("csv",
             writerows(<<<<Caracteres("pid"), Caracteres("duracion"),
                           Caracteres("prioridad"),
                           Caracteres("tiempo_llegada")>>,
                         <<Caracteres("P2"), Decimal(2), Decimal(1), Decimal(1)>>,
                         <<Caracteres("P1"), Decimal(0), Decimal(1), Decimal(0)>>>>),
             <<<<"P2", 2, 1, 1>>, <<"P1", 0, 1, 0>>>>)}

\* RepositorioProcesos() and the file found at the path, if any
InitArchivo ==
    /\ procesos = <<>>
    /\ pc = "menu"
    /\ politica = ""
    /\ quantum = 0
    /\ PonerSimInicial
    /\ metricas = SinMetricas
    /\ corridas = 0
    /\ resultado = SinResultado
    /\ archivo \in ArchivosDados

\* repositorio.guardar_json(ruta)
GuardarJSON ==
    /\ archivo' = guardar_json(procesos)
    /\ resultado' = [op |-> "guardar_json", args |-> <<>>, error |-> "",
                     valor |-> None]
    /\ UNCHANGED <<procesos, pc, politica, quantum, procesos_copia, cola,
                   gantt, tiempo_actual, i, metricas, corridas>>

\* repositorio.guardar_csv(ruta)
GuardarCSV ==
    /\ archivo' = guardar_csv(procesos)
    /\ resultado' = [op |-> "guardar_csv", args |-> <<>>, error |-> "",
                     valor |-> None]
    /\ UNCHANGED <<procesos, pc, politica, quantum, procesos_copia, cola,
                   gantt, tiempo_actual, i, metricas, corridas>>

\* repositorio.cargar_json(ruta), the file at ruta being a JSON file or
\* missing
CargarJSON ==
    /\ archivo.formato \in {"", "json"}
    /\ LET r == cargar_json(procesos, archivo)
       IN  /\ procesos' = r.procesos
           /\ resultado' = [op |-> "cargar_json", args |-> <<>>,
                            error |-> r.error, valor |-> None]
    /\ UNCHANGED <<archivo, pc, politica, quantum, procesos_copia, cola,
                   gantt, tiempo_actual, i, metricas, corridas>>

\* repositorio.cargar_csv(ruta), the file at ruta being a CSV file or missing
CargarCSV ==
    /\ archivo.formato \in {"", "csv"}
    /\ LET r == cargar_csv(procesos, archivo)
       IN  /\ procesos' = r.procesos
           /\ resultado' = [op |-> "cargar_csv", args |-> <<>>,
                            error |-> r.error, valor |-> None]
    /\ UNCHANGED <<archivo, pc, politica, quantum, procesos_copia, cola,
                   gantt, tiempo_actual, i, metricas, corridas>>

NextArchivo ==
    \/ \E obj \in ProcesosArchivo :
            Len(procesos) < MaxRepositorio /\ AgregarProceso(obj)
    \/ \E pid \in {"P1", "P2"} : EliminarProceso(pid)
    \/ Limpiar
    \/ PlanificarFCFS
    \/ GuardarJSON
    \/ GuardarCSV
    \/ CargarJSON
    \/ CargarCSV

SpecArchivo == InitArchivo /\ [][NextArchivo]_vars

\* --------------------------------------------- one run, loop by loop
\* the collection before a simulation: valid processes as constructed, each
\* arriving at 0 or later
InitCorrida ==
    /\ \E n \in 0..MaxProcs :
         \E d \in [1..n -> 1..MaxDuracion], a \in [1..n -> {0, MaxLlegada}] :
            procesos = [k \in 1..n |-> Proceso(Pids[k], d[k], 1, a[k])]
    /\ pc = "menu"
    /\ politica = ""
    /\ quantum = 0
    /\ PonerSimInicial
    /\ metricas = SinMetricas
    /\ corridas = 0
    /\ resultado = SinResultado
    /\ archivo = SinArchivo

\* one simulation of main.py from the menu to the return of planificar
NextCorrida ==
    \/ ejecutar_fcfs
    \/ \E q \in 1..MaxQuantum : ejecutar_round_robin(q)
    \/ PasoFCFS
    \/ PasoRR
    \/ RetornoFCFS
    \/ RetornoRR

\* the loops are sequential code: an iteration that can run does run
SpecCorrida ==
    /\ InitCorrida
    /\ [][NextCorrida]_vars
    /\ WF_vars(PasoFCFS)
    /\ WF_vars(PasoRR)

\* ============================================================ properties
\* helpers of the statements below
SegmentosDe(pid, g) == SelectSeq(g, LAMBDA e : e[1] = pid)

Largo(e) == e[3] - e[2]

SumaLargos(g) == Suma([j \in 1..Len(g) |-> Largo(g[j])])

Techo(a, b) == (a + b - 1) \div b

MaxDuracionDe(procs) ==
    CHOOSE m \in {procs[k].duracion : k \in 1..Len(procs)} :
        \A k \in 1..Len(procs) : procs[k].duracion <= m

LlegadasOrdenadas(procs) ==
    \A k \in 1..(Len(procs) - 1) :
        procs[k].tiempo_llegada <= procs[k + 1].tiempo_llegada

\* the collection as freshly constructed processes
Frescos ==
    [k \in 1..Len(procesos) |->
        Proceso(procesos[k].pid, procesos[k].duracion, procesos[k].prioridad,
                procesos[k].tiempo_llegada)]

\* what the policy of the current run returns and publishes on fresh processes
EnFrescos ==
    IF politica = "FCFS" THEN planificar_fcfs(Frescos)
    ELSE planificar_rr(Frescos, quantum)

\* C1: after FCFS planificar returns, every caller process carries the start
\* and the end of its own segment and tiempo_restante 0, whatever the input
\* order.
C1_PublicaSegmentoPropio ==
    (pc = "retorno" /\ politica = "FCFS") =>
        \A k \in 1..Len(procesos) :
            LET p == procesos[k]
                segs == SegmentosDe(p.pid, gantt)
            IN /\ Len(segs) = 1
               /\ p.tiempo_inicio = Some(segs[1][2])
               /\ p.tiempo_fin = Some(segs[1][3])
               /\ p.tiempo_restante = 0

\* C2: the returned segments of FCFS and of RR have non-decreasing starts and
\* each one starts at or after the end of the one before it.
C2_SinSolape ==
    pc = "retorno" =>
        \A j \in 2..Len(gantt) :
            /\ gantt[j - 1][2] <= gantt[j][2]
            /\ gantt[j - 1][3] <= gantt[j][2]

C2_Testigo ==
    /\ pc = "retorno"
    /\ politica = "RR"
    /\ Len(gantt) > Len(procesos)
    /\ \E j \in 2..Len(gantt) : gantt[j - 1][3] < gantt[j][2]

\* C3: the segment lengths add up to the sum of the durations, in total and
\* for each process.
C3_TiempoTotal ==
    pc = "retorno" =>
        /\ SumaLargos(gantt) = Suma([k \in 1..Len(procesos) |-> procesos[k].duracion])
        /\ \A k \in 1..Len(procesos) :
              SumaLargos(SegmentosDe(procesos[k].pid, gantt)) = procesos[k].duracion

C3_Testigo ==
    /\ pc = "retorno"
    /\ politica = "RR"
    /\ Len(procesos) >= 2
    /\ \E k \in 1..Len(procesos) : Len(SegmentosDe(procesos[k].pid, gantt)) >= 2
    /\ \E j \in 1..Len(gantt) : gantt[j][2] > (IF j = 1 THEN 0 ELSE gantt[j - 1][3])

\* C4: FCFS returns exactly one segment per process, of that process's
\* duration.
C4_UnSegmentoPorProceso ==
    (pc = "retorno" /\ politica = "FCFS") =>
        /\ Len(gantt) = Len(procesos)
        /\ \A k \in 1..Len(procesos) :
              LET segs == SegmentosDe(procesos[k].pid, gantt)
              IN Len(segs) = 1 /\ Largo(segs[1]) = procesos[k].duracion

C4_Testigo ==
    /\ pc = "retorno"
    /\ politica = "FCFS"
    /\ Len(procesos) >= 2
    /\ \E k \in 1..Len(procesos) : procesos[k].duracion >= 2

\* C5: under RR with quantum q every process has ceil(duracion/q) segments,
\* all of length q except the last, whose length is the rest (in 1..q); a
\* process with duracion <= q has one segment.
C5_Rebanadas ==
    (pc = "retorno" /\ politica = "RR") =>
        \A k \in 1..Len(procesos) :
            LET p == procesos[k]
                segs == SegmentosDe(p.pid, gantt)
                n == Len(segs)
            IN /\ n = Techo(p.duracion, quantum)
               /\ \A j \in 1..(n - 1) : Largo(segs[j]) = quantum
               /\ n >= 1
               /\ Largo(segs[n]) = p.duracion - quantum * (n - 1)
               /\ Largo(segs[n]) \in 1..quantum
               /\ (p.duracion <= quantum => n = 1)

C5_Testigo ==
    /\ pc = "retorno"
    /\ politica = "RR"
    /\ \E k \in 1..Len(procesos) :
          LET segs == SegmentosDe(procesos[k].pid, gantt)
          IN Len(segs) >= 2 /\ Largo(segs[Len(segs)]) < quantum
    /\ \E k \in 1..Len(procesos) : procesos[k].duracion <= quantum

\* C6 as stated: for any input order, RR with quantum >= max(duracion)
\* returns the same segment sequence as FCFS on the same input.
C6_RRComoFCFS_Original ==
    (pc = "retorno" /\ politica = "RR" /\ quantum >= MaxDuracionDe(procesos)) =>
        gantt = planificar_fcfs(Frescos).gantt

\* C6 amended: when the input list is in non-decreasing tiempo_llegada order,
\* RR with quantum >= max(duracion) returns the same segment sequence as FCFS
\* on the same input.
C6_RRComoFCFS ==
    (/\ pc = "retorno"
     /\ politica = "RR"
     /\ quantum >= MaxDuracionDe(procesos)
     /\ LlegadasOrdenadas(procesos)) =>
        gantt = planificar_fcfs(Frescos).gantt

C6_Testigo ==
    /\ pc = "retorno"
    /\ politica = "RR"
    /\ quantum >= MaxDuracionDe(procesos)
    /\ LlegadasOrdenadas(procesos)
    /\ Len(procesos) >= 2
    /\ Len(gantt) = Len(procesos)
    /\ \E k \in 1..(Len(procesos) - 1) :
          /\ procesos[k].tiempo_llegada < procesos[k + 1].tiempo_llegada
          /\ procesos[k].duracion # procesos[k + 1].duracion

\* C7: for every process with a segment, the reported tiempo_respuesta is the
\* start of its first segment minus its arrival, tiempo_retorno the end of its
\* last segment minus its arrival, tiempo_espera the latter minus duracion.
C7_MetricasPorProceso ==
    pc = "informe" =>
        \A k \in 1..Len(procesos) :
            LET p == procesos[k]
                segs == SegmentosDe(p.pid, gantt)
            IN Len(segs) >= 1 =>
                /\ p.pid \in DOMAIN metricas.metricas_individuales
                /\ LET m == metricas.metricas_individuales[p.pid]
                   IN /\ m.tiempo_respuesta = segs[1][2] - p.tiempo_llegada
                      /\ m.tiempo_retorno = segs[Len(segs)][3] - p.tiempo_llegada
                      /\ m.tiempo_espera = m.tiempo_retorno - p.duracion

C7_Testigo ==
    /\ pc = "informe"
    /\ \E k \in 1..Len(procesos) :
          /\ Len(SegmentosDe(procesos[k].pid, gantt)) >= 2
          /\ procesos[k].tiempo_llegada > 0
          /\ metricas.metricas_individuales[procesos[k].pid].tiempo_respuesta > 0

\* C8 as stated: tiempo_retorno = tiempo_respuesta + tiempo_espera + duracion
\* for every process of every report.
C8_Identidad_Original ==
    pc = "informe" =>
        \A pid \in DOMAIN metricas.metricas_individuales :
            LET m == metricas.metricas_individuales[pid]
            IN m.tiempo_retorno = m.tiempo_respuesta + m.tiempo_espera + m.duracion

\* C8 amended: tiempo_retorno = tiempo_espera + duracion for every process of
\* every report.
C8_Identidad ==
    pc = "informe" =>
        \A pid \in DOMAIN metricas.metricas_individuales :
            LET m == metricas.metricas_individuales[pid]
            IN m.tiempo_retorno = m.tiempo_espera + m.duracion

C8_Testigo ==
    /\ pc = "informe"
    /\ \E pid \in DOMAIN metricas.metricas_individuales :
          /\ metricas.metricas_individuales[pid].tiempo_respuesta > 0
          /\ metricas.metricas_individuales[pid].tiempo_espera >
                metricas.metricas_individuales[pid].tiempo_respuesta

\* C9: the three metrics of every process are >= 0 for reports computed from
\* FCFS or RR output.
C9_MetricasNoNegativas ==
    pc = "informe" =>
        /\ DOMAIN metricas.metricas_individuales =
              {procesos[k].pid : k \in 1..Len(procesos)}
        /\ \A pid \in DOMAIN metricas.metricas_individuales :
              LET m == metricas.metricas_individuales[pid]
              IN m.tiempo_respuesta >= 0 /\ m.tiempo_espera >= 0 /\ m.tiempo_retorno >= 0

C9_Testigo ==
    /\ pc = "informe"
    /\ Len(procesos) >= 2
    /\ \E k \in 1..Len(procesos) :
          /\ procesos[k].tiempo_llegada > 0
          /\ metricas.metricas_individuales[procesos[k].pid].tiempo_respuesta = 0
          /\ metricas.metricas_individuales[procesos[k].pid].tiempo_espera = 0

\* C10: each run on processes that were reiniciar()-ed first returns the
\* segments, and publishes the tiempo_inicio / tiempo_fin, that its policy
\* gives on freshly constructed processes, whatever ran before.
C10_SinFugaEntreCorridas ==
    pc = "retorno" =>
        /\ gantt = EnFrescos.gantt
        /\ \A k \in 1..Len(procesos) :
              /\ procesos[k].tiempo_inicio = EnFrescos.procesos[k].tiempo_inicio
              /\ procesos[k].tiempo_fin = EnFrescos.procesos[k].tiempo_fin

C10_Testigo ==
    /\ pc = "retorno"
    /\ corridas >= 2
    /\ politica = "RR"
    /\ Len(gantt) > Len(procesos)
    /\ Len(procesos) >= 2

\* C11: every returned segment of FCFS and of RR has start < end.
C11_SegmentoPositivo ==
    pc = "retorno" =>
        \A j \in 1..Len(gantt) : gantt[j][2] < gantt[j][3]

C11_Testigo ==
    /\ pc = "retorno"
    /\ politica = "RR"
    /\ quantum > 1
    /\ Len(gantt) >= 3
    /\ \E j \in 1..Len(gantt) : Largo(gantt[j]) = 1

\* the fields of the caller's processes that are not simulation state
Estaticos(procs) ==
    [k \in 1..Len(procs) |->
        <<procs[k].pid, procs[k].duracion, procs[k].prioridad,
          procs[k].tiempo_llegada>>]

\* C12: no step of planificar (FCFS or RR) changes the pid, duracion,
\* prioridad or tiempo_llegada of a caller process, nor the length or order
\* of the caller's list.
C12_SoloEscribeTiempos ==
    [][(pc \in {"menu", "fcfs", "rr"} /\ pc' \in {"fcfs", "rr", "retorno"}) =>
          Estaticos(procesos') = Estaticos(procesos)]_vars

C12_Testigo ==
    /\ pc = "retorno"
    /\ politica = "FCFS"
    /\ Len(procesos) >= 2
    /\ ~LlegadasOrdenadas(procesos)
    /\ procesos[1].duracion # procesos[2].duracion
    /\ \A k \in 1..Len(procesos) :
          procesos[k].tiempo_fin # None /\ procesos[k].tiempo_restante = 0

\* C13: after RR planificar returns, every caller process carries the start
\* of its first segment, the end of its last segment and tiempo_restante 0.
C13_RRPublica ==
    (pc = "retorno" /\ politica = "RR") =>
        \A k \in 1..Len(procesos) :
            LET p == procesos[k]
                segs == SegmentosDe(p.pid, gantt)
            IN /\ Len(segs) >= 1
               /\ p.tiempo_inicio = Some(segs[1][2])
               /\ p.tiempo_fin = Some(segs[Len(segs)][3])
               /\ p.tiempo_restante = 0

C13_Testigo ==
    /\ pc = "retorno"
    /\ politica = "RR"
    /\ Len(procesos) >= 2
    /\ ~LlegadasOrdenadas(procesos)
    /\ \E k \in 1..Len(procesos) : Len(SegmentosDe(procesos[k].pid, gantt)) >= 2

\* C14: on an empty process list FCFS and RR planificar return an empty
\* segment sequence without raising, and calcular_metricas on that result
\* reports the three averages as 0.
C14_ListaVacia ==
    (procesos = <<>> /\ pc \in {"retorno", "informe"}) =>
        /\ gantt = <<>>
        /\ resultado.op = "planificar"
        /\ resultado.error = ""
        /\ resultado.valor = Some(<<>>)
        /\ pc = "informe" =>
              /\ metricas.tiempo_respuesta_promedio.num = 0
              /\ metricas.tiempo_espera_promedio.num = 0
              /\ metricas.tiempo_retorno_promedio.num = 0
              /\ metricas.tiempo_respuesta_promedio.den > 0
              /\ metricas.tiempo_espera_promedio.den > 0
              /\ metricas.tiempo_retorno_promedio.den > 0

C14_Testigo ==
    /\ procesos = <<>>
    /\ pc = "informe"
    /\ politica = "RR"
    /\ corridas = 2

\* C16: constructing RoundRobinScheduler with quantum <= 0 raises ValueError
\* and yields no scheduler, so every scheduler that runs planificar has
\* quantum > 0, and planificar raises nothing.
C16_QuantumValido ==
    /\ resultado.op = "RoundRobinScheduler" =>
          IF resultado.args[1] <= 0
          THEN /\ resultado.error = "ValueError: El quantum debe ser un entero positivo"
               /\ resultado.valor = None
          ELSE /\ resultado.error = ""
               /\ resultado.valor = Some([quantum |-> resultado.args[1]])
    /\ (politica = "RR" /\ pc \in {"retorno", "informe"}) => quantum > 0
    /\ resultado.op = "planificar" => resultado.error = ""

C16_Testigo ==
    /\ resultado.op = "RoundRobinScheduler"
    /\ resultado.args[1] = 0
    /\ resultado.error # ""
    /\ corridas >= 1
    /\ procesos # <<>>

\* C15: calcular_metricas with an empty process list or an empty segment
\* list returns an empty metricas_individuales and the three averages 0.
C15_MetricasVacias ==
    (pc = "informe" /\ (procesos = <<>> \/ gantt = <<>>)) =>
        /\ DOMAIN metricas.metricas_individuales = {}
        /\ metricas.tiempo_respuesta_promedio.num = 0
        /\ metricas.tiempo_espera_promedio.num = 0
        /\ metricas.tiempo_retorno_promedio.num = 0
        /\ metricas.tiempo_respuesta_promedio.den > 0
        /\ metricas.tiempo_espera_promedio.den > 0
        /\ metricas.tiempo_retorno_promedio.den > 0

C15_Testigo ==
    /\ pc = "informe"
    /\ procesos = <<>>
    /\ Len(gantt) = MaxSegmentos

\* the messages of the constraints that the arguments of the last
\* Proceso(...) call violate
C17_Violadas ==
    LET a == resultado.args
        ll == IF a[4] = Omitido THEN Valor("int", 0) ELSE a[4]
    IN  (IF a[1].tipo # "str" \/ strip(a[1].val) = ""
         THEN {"ValueError: El PID no puede estar vacío"} ELSE {})
        \cup
        (IF a[2].tipo \notin {"int", "bool"} \/ a[2].val <= 0
         THEN {"ValueError: La duración debe ser un entero positivo"}
         ELSE {})
        \cup
        (IF a[3].tipo \notin {"int", "bool"}
         THEN {"ValueError: La prioridad debe ser un entero"} ELSE {})
        \cup
        (IF ll.tipo \notin {"int", "bool"} \/ ll.val < 0
         THEN {"ValueError: El tiempo de llegada debe ser un entero no negativo"}
         ELSE {})

\* C17: Proceso(...) with an empty or blank pid, duracion <= 0, a
\* non-integer prioridad or tiempo_llegada < 0 raises ValueError with the
\* message of a constraint the arguments violate and creates no process;
\* an accepted process has tiempo_restante = duracion, tiempo_inicio and
\* tiempo_fin unset, and tiempo_llegada = 0 when it was omitted.
C17_Validacion ==
    resultado.op = "Proceso" =>
        /\ C17_Violadas # {} =>
              /\ resultado.error \in C17_Violadas
              /\ resultado.valor = None
              /\ procesos = <<>>
        /\ C17_Violadas = {} =>
              /\ resultado.error = ""
              /\ procesos = resultado.valor
              /\ Len(procesos) = 1
              /\ procesos[1].pid = resultado.args[1].val
              /\ procesos[1].duracion = resultado.args[2].val
              /\ procesos[1].prioridad = resultado.args[3].val
              /\ procesos[1].tiempo_restante = procesos[1].duracion
              /\ procesos[1].tiempo_inicio = None
              /\ procesos[1].tiempo_fin = None
              /\ resultado.args[4] = Omitido =>
                    procesos[1].tiempo_llegada = 0
              /\ resultado.args[4] # Omitido =>
                    procesos[1].tiempo_llegada = resultado.args[4].val

C17_Testigo ==
    /\ resultado.op = "Proceso"
    /\ resultado.args[1] = Valor("str", "   ")
    /\ resultado.args[2].val <= 0
    /\ resultado.error # ""

\* C18: reiniciar sets tiempo_restante to duracion and clears tiempo_inicio
\* and tiempo_fin whatever they were, leaves pid, duracion, prioridad and
\* tiempo_llegada as they were, and a second reiniciar changes nothing.
C18_Reiniciar ==
    resultado.op = "reiniciar" =>
        LET antes == resultado.args[1]
            p == procesos[1]
        IN  /\ p.tiempo_restante = p.duracion
            /\ p.tiempo_inicio = None
            /\ p.tiempo_fin = None
            /\ Estaticos(<<p>>) = Estaticos(<<antes>>)
            /\ reiniciar(p) = p

C18_Testigo ==
    /\ resultado.op = "reiniciar"
    /\ resultado.args[1].tiempo_restante < resultado.args[1].duracion
    /\ resultado.args[1].tiempo_inicio # None
    /\ resultado.args[1].tiempo_fin # None

PidsDe(d) == {d[k].pid : k \in 1..Len(d)}

\* C19: agregar_proceso returns True and stores the process iff its pid is
\* not stored; for a stored pid it returns False and the repository keeps
\* the same processes; stored pids stay unique.
C19_AgregarSinDuplicados ==
    [][(resultado'.op = "agregar_proceso" /\ resultado'.error = "") =>
          LET proceso == resultado'.args[1]
              estaba == proceso.pid \in PidsDe(procesos)
          IN  /\ resultado'.valor = Some(~estaba)
              /\ ~estaba => procesos' = Append(procesos, proceso)
              /\ estaba => procesos' = procesos
              /\ Cardinality(PidsDe(procesos')) = Len(procesos')]_vars

C19_Testigo ==
    /\ resultado.op = "agregar_proceso"
    /\ resultado.valor = Some(FALSE)
    /\ \E k \in 1..Len(procesos) :
          /\ procesos[k].pid = resultado.args[1].pid
          /\ procesos[k] # resultado.args[1]

\* C20: eliminar_proceso(pid) returns True and removes exactly the process
\* with that pid iff it is stored, otherwise returns False and changes
\* nothing; after a removal obtener_proceso(pid) is None and a process with
\* that pid can be added again.
C20_Eliminar ==
    [][resultado'.op = "eliminar_proceso" =>
          LET pid == resultado'.args[1]
              estaba == pid \in PidsDe(procesos)
          IN  /\ resultado'.valor = Some(estaba)
              /\ ~estaba => procesos' = procesos
              /\ estaba =>
                    /\ Len(procesos') = Len(procesos) - 1
                    /\ procesos' = SelectSeq(procesos, LAMBDA p : p.pid # pid)
                    /\ obtener_proceso(procesos', pid) = None
                    /\ \A d \in 1..MaxDuracion :
                          LET r == agregar_proceso(procesos',
                                                   Proceso(pid, d, 1, 0))
                          IN  /\ r.valor = Some(TRUE)
                              /\ obtener_proceso(r.procesos, pid) =
                                    Some(Proceso(pid, d, 1, 0))]_vars

C20_Testigo ==
    /\ resultado.op = "eliminar_proceso"
    /\ resultado.valor = Some(TRUE)
    /\ procesos # <<>>

\* the published times of a list of processes
TiemposDe(procs) ==
    [k \in 1..Len(procs) |-> <<procs[k].tiempo_inicio, procs[k].tiempo_fin>>]

\* planificar of the policy of the last run
PlanificarOtraVez(procs) ==
    IF politica = "FCFS" THEN planificar_fcfs(procs)
    ELSE planificar_rr(procs, quantum)

\* C24: a run on processes of any prioridad returns the segments and
\* publishes the times of the run on the same processes with every
\* prioridad replaced by one value, under FCFS and under RR.
C24_PrioridadNoInfluye ==
    pc = "retorno" =>
        LET entrada == [k \in 1..Len(procesos) |->
                          Proceso(procesos[k].pid, procesos[k].duracion, 0,
                                  procesos[k].tiempo_llegada)]
            r == PlanificarOtraVez(entrada)
        IN  /\ gantt = r.gantt
            /\ TiemposDe(procesos) = TiemposDe(r.procesos)

C24_Testigo ==
    /\ pc = "retorno"
    /\ Len(procesos) >= 2
    /\ procesos[1].prioridad > procesos[2].prioridad
    /\ procesos[1].tiempo_llegada = procesos[2].tiempo_llegada

\* the same processes after reiniciar
Reiniciados(procs) == [k \in 1..Len(procs) |-> reiniciar(procs[k])]

PosicionDe(pid) == CHOOSE k \in 1..Len(procesos) : procesos[k].pid = pid

\* C26: the FCFS segments are in ascending tiempo_llegada order, and
\* processes with the same tiempo_llegada in the order of the input list.
C26_OrdenFCFS ==
    (politica = "FCFS" /\ pc \in {"fcfs", "retorno", "informe"}) =>
        \A j \in 1..Len(gantt), h \in 1..Len(gantt) :
            j < h =>
                LET a == procesos[PosicionDe(gantt[j][1])]
                    b == procesos[PosicionDe(gantt[h][1])]
                IN  \/ a.tiempo_llegada < b.tiempo_llegada
                    \/ /\ a.tiempo_llegada = b.tiempo_llegada
                       /\ PosicionDe(gantt[j][1]) < PosicionDe(gantt[h][1])

C26_Testigo ==
    /\ politica = "FCFS"
    /\ pc = "retorno"
    /\ Len(gantt) >= 2
    /\ gantt[1][1] = procesos[2].pid

\* the positions served when cycling through the list in input order from
\* position k, each turn taking up to q from what is left and skipping the
\* positions with nothing left
RECURSIVE Ciclico(_, _, _)
Ciclico(resto, k, q) ==
    IF \A j \in DOMAIN resto : resto[j] = 0 THEN <<>>
    ELSE LET sig == IF k = Len(resto) THEN 1 ELSE k + 1
         IN  IF resto[k] = 0 THEN Ciclico(resto, sig, q)
             ELSE <<k>> \o
                  Ciclico([resto EXCEPT ![k] = IF @ > q THEN @ - q ELSE 0],
                          sig, q)

\* C27: the pids of the RR segments are those of cycling through the input
\* list in input order, skipping finished processes; the first n segments
\* are the n processes in input order.
C27_OrdenCircular ==
    (politica = "RR" /\ pc \in {"rr", "retorno", "informe"}) =>
        LET n == Len(procesos)
            esperado == Ciclico([k \in 1..n |-> procesos[k].duracion], 1,
                                quantum)
        IN  /\ Len(gantt) <= Len(esperado)
            /\ \A j \in 1..Len(gantt) :
                  gantt[j][1] = procesos[esperado[j]].pid
            /\ pc # "rr" => Len(gantt) = Len(esperado)
            /\ \A j \in 1..n : j <= Len(gantt) => gantt[j][1] = procesos[j].pid

C27_Testigo ==
    /\ politica = "RR"
    /\ pc = "retorno"
    /\ Len(procesos) >= 2
    /\ Len(gantt) > Len(procesos)
    /\ procesos[1].tiempo_llegada > procesos[2].tiempo_llegada

\* C28: in RR a head process that has not arrived makes the clock jump to
\* its tiempo_llegada: its segment starts at the later of the previous end
\* and its arrival, and every later segment starts no earlier than that
\* arrival, also those of processes that had arrived before.
C28_CabezaBloquea ==
    (politica = "RR" /\ pc \in {"rr", "retorno", "informe"}) =>
        \A j \in 1..Len(gantt) :
            LET llegada == procesos[PosicionDe(gantt[j][1])].tiempo_llegada
                previo == IF j = 1 THEN 0 ELSE gantt[j - 1][3]
            IN  /\ gantt[j][2] = IF previo < llegada THEN llegada ELSE previo
                /\ \A h \in j..Len(gantt) : gantt[h][2] >= llegada

C28_Testigo ==
    /\ politica = "RR"
    /\ pc = "retorno"
    /\ Len(procesos) >= 2
    /\ procesos[1].tiempo_llegada > 0
    /\ procesos[2].tiempo_llegada = 0
    /\ gantt[1] = <<procesos[1].pid, procesos[1].tiempo_llegada,
                    procesos[1].tiempo_llegada + 1>>
    /\ gantt[2][1] = procesos[2].pid
    /\ gantt[2][2] > procesos[1].tiempo_llegada

\* C29: while the loop of planificar runs (FCFS or RR) the caller's
\* processes are not written: each step of the loop leaves them as they
\* were when planificar was called.
C29_SinEscrituraEnElBucle ==
    [][(pc \in {"fcfs", "rr"} /\ pc' \in {"fcfs", "rr"}) =>
          procesos' = procesos]_vars

C29_Testigo ==
    /\ pc = "rr"
    /\ cola # <<>>
    /\ \E k \in 1..Len(procesos) :
          /\ procesos_copia[k].tiempo_inicio # None
          /\ procesos_copia[k].tiempo_restante < procesos[k].tiempo_restante
          /\ procesos[k].tiempo_inicio = None

\* C30: at every step of a run on reset processes every working copy has
\* 0 <= tiempo_restante <= duracion, and tiempo_restante is duracion less
\* the total length of the segments emitted so far for it.
C30_RestanteAcotado ==
    pc \in {"fcfs", "rr", "retorno", "informe"} =>
        \A k \in 1..Len(procesos_copia) :
            LET c == procesos_copia[k]
            IN  /\ 0 <= c.tiempo_restante
                /\ c.tiempo_restante <= c.duracion
                /\ c.tiempo_restante =
                      c.duracion - SumaLargos(SegmentosDe(c.pid, gantt))

C30_Testigo ==
    /\ pc = "rr"
    /\ \E k \in 1..Len(procesos_copia) :
          /\ procesos_copia[k].tiempo_restante > 0
          /\ procesos_copia[k].tiempo_restante < procesos_copia[k].duracion

\* every process is as constructed: nothing of a simulation on it
SinEjecutar(procs) ==
    \A k \in 1..Len(procs) :
        /\ procs[k].tiempo_restante = procs[k].duracion
        /\ procs[k].tiempo_inicio = None
        /\ procs[k].tiempo_fin = None

\* C21: after loading a file the repository holds processes with the pid,
\* duracion, prioridad and tiempo_llegada the file was written with
\* (tiempo_llegada 0 where the record has none), each in its initial state,
\* also when the saved processes had been scheduled.
C21_IdaYVuelta ==
    (resultado.op \in {"cargar_json", "cargar_csv"} /\ resultado.error = "") =>
        /\ Estaticos(procesos) = archivo.descritos
        /\ SinEjecutar(procesos)

\* the (pid, duracion, prioridad, tiempo_llegada) found in a sequence of them
Descritos(ds) == {ds[k] : k \in 1..Len(ds)}

\* C22: after a successful cargar_json or cargar_csv the repository holds
\* exactly the processes the file describes, one per record, and so none of
\* those stored before the call that the file does not describe.
C22_CargaReemplaza ==
    (resultado.op \in {"cargar_json", "cargar_csv"} /\ resultado.error = "") =>
        /\ Descritos(Estaticos(procesos)) = Descritos(archivo.descritos)
        /\ Len(procesos) = Len(archivo.descritos)

\* C23: cargar_json and cargar_csv on a path where there is no file raise
\* IOError "Archivo no encontrado" and leave the repository as it was.
C23_ArchivoInexistente ==
    [][(resultado'.op \in {"cargar_json", "cargar_csv"} /\ ~archivo.existe) =>
           /\ resultado'.error = "IOError: Archivo no encontrado"
           /\ procesos' = procesos]_vars

C23_Testigo ==
    /\ resultado.op \in {"cargar_json", "cargar_csv"}
    /\ resultado.error = "IOError: Archivo no encontrado"
    /\ ~archivo.existe
    /\ procesos # <<>>

\* C31: within one run on reset processes, the tiempo_inicio of a working
\* copy is assigned once, at its first segment and to that segment's start,
\* and never changes afterwards; its tiempo_fin is unset while
\* tiempo_restante > 0 and is assigned once, at the step where
\* tiempo_restante becomes 0, to the clock value of that step.
C31_TiemposUnaVez ==
    [][(pc' \in {"fcfs", "rr"}) =>
          \A k \in 1..Len(procesos_copia') :
              LET d == procesos_copia'[k]
                  ultimo == gantt'[Len(gantt')]
              IN  /\ d.tiempo_restante > 0 => d.tiempo_fin = None
                  /\ (d.tiempo_inicio = None) = (SegmentosDe(d.pid, gantt') = <<>>)
                  /\ pc = pc' =>
                        LET c == procesos_copia[k]
                        IN  /\ c.tiempo_inicio # None =>
                                  d.tiempo_inicio = c.tiempo_inicio
                            /\ (c.tiempo_inicio = None /\ d.tiempo_inicio # None) =>
                                  /\ ultimo[1] = d.pid
                                  /\ d.tiempo_inicio = Some(ultimo[2])
                                  /\ Len(SegmentosDe(d.pid, gantt')) = 1
                            /\ c.tiempo_fin # None => d.tiempo_fin = c.tiempo_fin
                            /\ (c.tiempo_fin = None /\ d.tiempo_fin # None) =>
                                  /\ c.tiempo_restante > 0
                                  /\ d.tiempo_restante = 0
                            /\ (c.tiempo_restante > 0 /\ d.tiempo_restante = 0) =>
                                  d.tiempo_fin = Some(tiempo_actual')]_vars

C31_Testigo ==
    /\ pc = "rr"
    /\ \E k \in 1..Len(procesos_copia), j \in 1..Len(procesos_copia) :
          /\ procesos_copia[k].tiempo_fin # None
          /\ Len(SegmentosDe(procesos_copia[k].pid, gantt)) >= 2
          /\ procesos_copia[j].tiempo_restante > 0
          /\ procesos_copia[j].tiempo_inicio # None

\* total tiempo_restante over a list of processes
RestanteTotal(procs) == Suma([k \in 1..Len(procs) |-> procs[k].tiempo_restante])

\* C32: the RR loop terminates for every list of valid reset processes and
\* every quantum > 0: each iteration strictly decreases the total
\* tiempo_restante of the working copies, and the loop reaches an empty queue
\* with every tiempo_restante 0 after exactly the sum of ceil(duracion/quantum)
\* iterations; the FCFS loop ends having visited each process exactly once.
C32_Terminacion ==
    /\ [][(pc = "rr" /\ pc' = "rr") =>
             /\ RestanteTotal(procesos_copia') < RestanteTotal(procesos_copia)
             /\ Len(gantt') = Len(gantt) + 1]_vars
    /\ [](pc = "rr" /\ cola = <<>> =>
             /\ \A k \in 1..Len(procesos_copia) :
                    procesos_copia[k].tiempo_restante = 0
             /\ Len(gantt) = Suma([k \in 1..Len(procesos) |->
                                      Techo(procesos[k].duracion, quantum)]))
    /\ [](pc = "fcfs" /\ i > Len(procesos_copia) =>
             \A k \in 1..Len(procesos) :
                 Len(SegmentosDe(procesos[k].pid, gantt)) = 1)
    /\ (pc = "rr") ~> (pc = "rr" /\ cola = <<>>)
    /\ (pc = "fcfs") ~> (pc = "fcfs" /\ i > Len(procesos_copia))

C32_Testigo ==
    /\ pc = "rr"
    /\ cola = <<>>
    /\ quantum < MaxDuracion
    /\ Len(gantt) > Len(procesos)
    /\ Len(procesos) >= 2

\* the smallest start and the largest end over the segments of pid in g
MenorInicio(pid, g) ==
    LET s == SegmentosDe(pid, g)
    IN  CHOOSE a \in {s[j][2] : j \in 1..Len(s)} :
            \A j \in 1..Len(s) : a <= s[j][2]

MayorFin(pid, g) ==
    LET s == SegmentosDe(pid, g)
    IN  CHOOSE b \in {s[j][3] : j \in 1..Len(s)} :
            \A j \in 1..Len(s) : s[j][3] <= b

\* C33: for any segment sequence given to calcular_metricas, in ascending
\* time order or not, the tiempo_respuesta of a reported process is the
\* minimum start over all its segments minus its tiempo_llegada, and its
\* tiempo_retorno the maximum end over all its segments minus its
\* tiempo_llegada.
C33_MinimoYMaximo ==
    pc = "informe" =>
        \A k \in 1..Len(procesos) :
            LET p == procesos[k]
            IN  p.pid \in DOMAIN metricas.metricas_individuales =>
                  LET mi == metricas.metricas_individuales[p.pid]
                  IN  /\ mi.tiempo_respuesta =
                             MenorInicio(p.pid, gantt) - p.tiempo_llegada
                      /\ mi.tiempo_retorno =
                             MayorFin(p.pid, gantt) - p.tiempo_llegada

\* the input processes whose pid occurs in at least one segment, in order
Presentes(procs, g) ==
    SelectSeq(procs, LAMBDA p : SegmentosDe(p.pid, g) # <<>>)

\* the fraction f is the sum of lista divided by its length, 0 if it is empty
EsPromedio(f, lista) ==
    IF lista = <<>> THEN f.num = 0 /\ f.den = 1
    ELSE f.den > 0 /\ f.num * Len(lista) = Suma(lista) * f.den

\* C34: calcular_metricas reports an entry for exactly the input processes
\* whose pid occurs in some segment (the others are skipped, segments of
\* unknown pids are ignored), and each average is the sum of that metric over
\* the reported processes divided by their count, 0 when none is reported.
C34_ReportadosYPromedios ==
    pc = "informe" =>
        LET rep == Presentes(procesos, gantt)
            mi == metricas.metricas_individuales
            De(campo) == [k \in 1..Len(rep) |-> mi[rep[k].pid][campo]]
        IN  /\ DOMAIN mi = {rep[k].pid : k \in 1..Len(rep)}
            /\ EsPromedio(metricas.tiempo_respuesta_promedio, De("tiempo_respuesta"))
            /\ EsPromedio(metricas.tiempo_espera_promedio, De("tiempo_espera"))
            /\ EsPromedio(metricas.tiempo_retorno_promedio, De("tiempo_retorno"))

C34_Testigo ==
    /\ pc = "informe"
    /\ Len(procesos) = 2
    /\ Len(Presentes(procesos, gantt)) = 1
    /\ \E j \in 1..Len(gantt) :
          \A k \in 1..Len(procesos) : procesos[k].pid # gantt[j][1]
    /\ metricas.tiempo_retorno_promedio.num # 0

\* C35: when every process has tiempo_llegada 0, the segments returned by
\* FCFS and by RR (any quantum > 0) have no gap: the first starts at 0, each
\* other starts at the end of the one before, and the last ends at the sum
\* of all duracion.
C35_SinHuecos ==
    (/\ pc = "retorno"
     /\ procesos # <<>>
     /\ \A k \in 1..Len(procesos) : procesos[k].tiempo_llegada = 0) =>
        /\ gantt # <<>>
        /\ gantt[1][2] = 0
        /\ \A j \in 2..Len(gantt) : gantt[j][2] = gantt[j - 1][3]
        /\ gantt[Len(gantt)][3] =
              Suma([k \in 1..Len(procesos) |-> procesos[k].duracion])

C35_Testigo ==
    /\ pc = "retorno"
    /\ politica = "RR"
    /\ Len(procesos) >= 2
    /\ \A k \in 1..Len(procesos) : procesos[k].tiempo_llegada = 0
    /\ Len(gantt) > Len(procesos)

\* the tiempo_llegada of the process that segment e belongs to
LlegadaDe(e) == procesos[PosicionDe(e[1])].tiempo_llegada

\* C36: no process runs before it arrives: every segment of the output of
\* FCFS and of RR starts at or after the tiempo_llegada of its process.
C36_NoAntesDeLlegar ==
    pc \in {"fcfs", "rr", "retorno", "informe"} =>
        \A j \in 1..Len(gantt) : gantt[j][2] >= LlegadaDe(gantt[j])

C36_Testigo ==
    /\ pc = "retorno"
    /\ politica = "RR"
    /\ \E j \in 2..Len(gantt) :
          /\ gantt[j][2] = LlegadaDe(gantt[j])
          /\ gantt[j - 1][3] < gantt[j][2]

\* end of the segment before position j, 0 for the first
FinAnterior(j) == IF j = 1 THEN 0 ELSE gantt[j - 1][3]

\* C37: FCFS is work-conserving: every segment starts at the larger of the
\* end of the segment before (0 for the first) and the tiempo_llegada of
\* its process, so the processor is idle before a segment only when no
\* process still to run arrived before that segment's start.
C37_SinOcioEvitable ==
    (politica = "FCFS" /\ pc = "retorno") =>
        \A j \in 1..Len(gantt) :
            /\ gantt[j][2] =
                  IF FinAnterior(j) >= LlegadaDe(gantt[j])
                  THEN FinAnterior(j) ELSE LlegadaDe(gantt[j])
            /\ gantt[j][2] > FinAnterior(j) =>
                  \A h \in j..Len(gantt) : LlegadaDe(gantt[h]) >= gantt[j][2]

C37_Testigo ==
    /\ politica = "FCFS"
    /\ pc = "retorno"
    /\ Len(gantt) >= 2
    /\ gantt[2][2] > gantt[1][3]
    /\ procesos[1].tiempo_llegada > procesos[2].tiempo_llegada

\* C38: for metrics computed from the output of FCFS or RR on valid reset
\* processes, tiempo_respuesta <= tiempo_espera for every process, and they
\* are equal for every process under FCFS.
C38_RespuestaYEspera ==
    pc = "informe" =>
        \A pid \in DOMAIN metricas.metricas_individuales :
            LET mi == metricas.metricas_individuales[pid]
            IN  /\ mi.tiempo_respuesta <= mi.tiempo_espera
                /\ politica = "FCFS" => mi.tiempo_respuesta = mi.tiempo_espera

C38_Testigo ==
    /\ pc = "informe"
    /\ politica = "RR"
    /\ \E pid \in DOMAIN metricas.metricas_individuales :
          /\ metricas.metricas_individuales[pid].tiempo_respuesta > 0
          /\ metricas.metricas_individuales[pid].tiempo_respuesta <
                metricas.metricas_individuales[pid].tiempo_espera

\* duracion, prioridad and tiempo_llegada of each element, in order
SinPid(ds) == [k \in 1..Len(ds) |-> <<ds[k][2], ds[k][3], ds[k][4]>>]

\* the elements of a are elements of b, in the order they have in b
RECURSIVE EsSubsecuencia(_, _)
EsSubsecuencia(a, b) ==
    IF a = <<>> THEN TRUE
    ELSE IF b = <<>> THEN FALSE
    ELSE IF Head(a) = Head(b) THEN EsSubsecuencia(Tail(a), Tail(b))
    ELSE EsSubsecuencia(a, Tail(b))

\* C39: after any sequence of agregar_proceso, eliminar_proceso, limpiar and
\* successful loads, cantidad_procesos() = len(repo) = the number of elements
\* of listar_procesos() = the number of distinct stored pids, every stored
\* process is returned by obtener_proceso under its own pid, and
\* listar_procesos() is in insertion order: an added process goes last, a
\* removal keeps the others in place, loaded processes come in the order of
\* the records of the file.
C39_RepositorioCoherente ==
    [][(resultado'.error = "") =>
          LET antes == listar_procesos(procesos)
              lista == listar_procesos(procesos')
          IN  /\ cantidad_procesos(procesos') = len(procesos')
              /\ len(procesos') = Len(lista)
              /\ Len(lista) = Cardinality(PidsDe(lista))
              /\ \A k \in 1..Len(lista) :
                    obtener_proceso(procesos', lista[k].pid) = Some(lista[k])
              /\ (resultado'.op = "agregar_proceso"
                  /\ resultado'.valor = Some(TRUE)) =>
                    lista = Append(antes, resultado'.args[1])
              /\ resultado'.op = "eliminar_proceso" =>
                    lista = SelectSeq(antes,
                                LAMBDA p : p.pid # resultado'.args[1])
              /\ resultado'.op = "limpiar" => lista = <<>>
              /\ resultado'.op \in {"cargar_json", "cargar_csv"} =>
                    EsSubsecuencia(SinPid(Estaticos(lista)),
                                   SinPid(archivo.descritos))]_vars

C39_Testigo ==
    /\ resultado.op = "eliminar_proceso"
    /\ resultado.valor = Some(TRUE)
    /\ archivo.existe
    /\ Len(archivo.descritos) = 2
    /\ Len(procesos) = 1
    /\ procesos[1].pid # "P1"

\* C40: cargar_json and cargar_csv are all-or-nothing: when the load raises,
\* whatever the reason, the repository holds exactly the processes it held
\* before the call.
C40_TodoONada ==
    [][(resultado'.op \in {"cargar_json", "cargar_csv"}
        /\ resultado'.error # "") => procesos' = procesos]_vars

====
